---- MODULE Spec2Model ----
(***************************************************************************)
(* MySQL -> BigQuery incremental sync, version 3.                          *)
(*                                                                         *)
(* Time is counted in whole hours since 1970-01-01T00:00:00.  A datetime   *)
(* value is a record [t, aware]: t is its wall-clock reading and aware     *)
(* says whether it carries tzinfo (the BigQuery client returns TIMESTAMP   *)
(* cells as UTC-aware datetimes, pandas/pymysql return naive ones).        *)
(* A BigQuery TIMESTAMP cell is the hour count of the instant in UTC.      *)
(* A row is a record [pk, wm, val]: primary key, incremental (watermark)   *)
(* column and one further non-key column.  A BigQuery target table is a    *)
(* bag of rows (it enforces no key); a MySQL table, a DataFrame and a      *)
(* staging table hold one row per primary key and are sets of rows.        *)
(***************************************************************************)
EXTENDS Integers, Sequences, FiniteSets, Bags, TLC

\* ---- bounds of the model ------------------------------------------------
MaxPK == 2          \* primary keys of a source table are 1..MaxPK
MaxClock == 3       \* the source executes at most MaxClock statements
MaxRuns == 3        \* pipeline invocations explored
MaxFaults == 1      \* external calls that fail, over all explored invocations

\* ---- program constants --------------------------------------------------
LagosOffset == 1    \* ZoneInfo("Africa/Lagos") is UTC+1 all year
EpochT == 0         \* datetime(1970, 1, 1) / TIMESTAMP('1970-01-01 00:00:00')

\* names a configuration may give its tables
TableNames == {"orders", "users"}

PKs == 1..MaxPK
\* sample values of the merge-only specification: two timestamps T1 < T2 of
\* the incremental column and two amounts
MergeWms == {1, 2}
Vals == {100, 999}
NoValue == [none |-> TRUE]
NoEntry == [absent |-> TRUE]

VARIABLES
  tables,           \* self.config.tables: the configured tables, in order
  clock,            \* source database clock (hours)
  src,              \* src[t]: rows of the MySQL table
  auto_increment,   \* auto_increment[t]: the id the next inserted row gets
  src_schema,       \* src_schema[t]: the columns of the MySQL table (DESCRIBE t)
  dest_exists,      \* dest_exists[t]: the BigQuery target table exists
  dest,             \* dest[t]: rows of the BigQuery target table
  dest_schema,      \* dest_schema[t]: table.schema of the target table
  staging_exists,   \* staging_exists[t]: the <t>_staging table exists
  staging,          \* staging[t]: rows of the staging table
  staging_schema,   \* staging_schema[t]: table.schema of the staging table
  metadata_exists,  \* the metadata (ledger) table exists
  ledger,           \* ledger[t]: the metadata row of table t, or NoEntry
  pc,               \* position of the pipeline invocation
  idx,              \* index in tables of the table being synced
  result,           \* the result dict of the running sync_table call
  last_synced,      \* value returned by get_last_sync_time
  df,               \* the extracted DataFrame (a set of rows)
  df_columns,       \* df.columns of the extracted DataFrame
  mysql_schema,     \* the schema get_table_schema returned to sync_table
  schema,           \* the schema ensure_staging_table returned to sync_table
  sync_results,     \* the list run_sync_pipeline returns
  runs,             \* completed pipeline invocations
  \* history variables (observe the run, never read by the program)
  stages,           \* component calls made so far by the running sync_table
  errored,          \* component calls of the running sync_table that returned an error
  wm_before,        \* ledger last_sync_time of the table when its run started
  entry_before,     \* ledger entry of the table when its run started
  dest_before,      \* rows of the target table when the run started
  staging_before,   \* rows of the staging table when the run started
  merged,           \* [rows |-> staging rows the MERGE statement of the run read],
                    \* NoValue while the run has executed no MERGE statement
  load_columns,     \* [batch, dest, staging]: column names of the batch, the
                    \* target and the staging table at the run's load_to_staging
                    \* call with a non-empty batch, NoValue before it
  src_at_extract,   \* source rows at the moment of the run's extraction
  ledger_snap,      \* ledger_snap[t]: src_at_extract of the run that wrote ledger[t]
  last_success_wm,  \* last_success_wm[t]: [t |-> last_sync_time written by the
                    \* latest SUCCESS run of t], NoValue when there was none
  lost_write,       \* lost_write[t]: when the latest run of t ended SUCCESS with
                    \* a batch and its update_metadata wrote nothing, the batch,
                    \* the target rows and the source rows of that run, the
                    \* ledger entry it started from and whether its ledger
                    \* read raised; NoValue otherwise
  own_fault,        \* own_fault[t]: a fatal stage of t failed in this invocation
  md_calls,         \* md_calls[t]: update_metadata calls for t in this invocation
  md_last,          \* arguments of the latest update_metadata call
  read_failed,      \* the ledger read of the running sync_table raised
  faults,           \* external calls that have failed so far
  \* merge-only specification
  mD, mS, mOnce, mTwice, mpc,
  \* reconciliation-only specification: the table schema, the incoming
  \* schema, the schema after and the return of the first and second call
  col_table, col_incoming, col_after_first, col_after_second,
  col_first, col_second, col_pc,
  \* update_metadata alone, called by overlapping invocations
  lg,               \* the rows of the metadata table (a bag)
  wr,               \* wr[w]: the update_metadata call invocation w is in, or NoValue
  lg_obs,           \* the MERGE statements executed so far, in order
  \* the MySQLExtractor calls alone, statement by statement
  ex,               \* the running call: its arguments, its position, the SSH
                    \* tunnel and the connection it opened, what it returned
  ex_calls,         \* extractor calls made so far
  ex_result,        \* the result dict of sync_table once the call was handled
  \* two invocations of the pipeline on the same table
  inv,              \* inv[i]: position, last_synced and df of invocation i
  \* mysql_type_to_bigquery alone: the type string, what the first and
  \* the second call returned
  ty_in, ty_out, ty_again, ty_pc,
  \* the table references of a configuration: the configuration, the tables
  \* of the BigQuery project by reference, the metadata rows, the position
  rf,
  \* the version 2 handler: its tables, its metadata rows, its position
  v2

mainvars == <<tables, clock, src, auto_increment, src_schema, dest_exists, dest,
              dest_schema, staging_exists, staging, staging_schema,
              metadata_exists, ledger, pc, idx, result, last_synced, df,
              df_columns, mysql_schema, schema,
              sync_results, runs, stages, errored, wm_before, entry_before,
              dest_before, staging_before, merged, load_columns, src_at_extract,
              ledger_snap, last_success_wm, lost_write, own_fault, md_calls,
              md_last, read_failed, faults>>
mergevars == <<mD, mS, mOnce, mTwice, mpc>>
colvars == <<col_table, col_incoming, col_after_first, col_after_second,
             col_first, col_second, col_pc>>
ledgervars == <<lg, wr, lg_obs>>
extvars == <<ex, ex_calls, ex_result>>
typevars == <<ty_in, ty_out, ty_again, ty_pc>>
othervars == <<rf, v2>>
sidevars == <<ledgervars, extvars, inv, typevars, othervars>>
purevars == <<mergevars, colvars, sidevars>>
vars == <<mainvars, mergevars, colvars, sidevars>>

\* ---- helpers ------------------------------------------------------------
RECURSIVE SetMax(_)
SetMax(S) == IF S = {} THEN EpochT
             ELSE LET x == CHOOSE y \in S : TRUE
                      m == SetMax(S \ {x})
                  IN IF x > m THEN x ELSE m

Naive(t) == [t |-> t, aware |-> FALSE]
Aware(t) == [t |-> t, aware |-> TRUE]

\* stored last_sync_time of a ledger row, an absent row counting as the epoch
LedgerWm(L, t) == IF L[t] = NoEntry THEN EpochT ELSE L[t].last_sync_time

\* ---- SchemaManager ------------------------------------------------------
\* A MySQL type string is the sequence of its words, a size suffix such as
\* "(11)" being one word: 'int(11) unsigned' is <<"int", "(11)", "unsigned">>.
SizeSuffixes == {"(1)", "(11)", "(255)", "(10,2)"}

\* TYPE_MAPPING, lines 13-44
TYPE_MAPPING ==
  [b \in {"tinyint", "smallint", "mediumint", "int", "bigint", "year"} |-> "INT64"] @@
  [b \in {"float", "double"} |-> "FLOAT64"] @@
  [b \in {"decimal"} |-> "NUMERIC"] @@
  [b \in {"char", "varchar", "text", "tinytext", "mediumtext", "longtext",
          "enum", "set"} |-> "STRING"] @@
  [b \in {"date"} |-> "DATE"] @@
  [b \in {"datetime", "timestamp"} |-> "TIMESTAMP"] @@
  [b \in {"time"} |-> "TIME"] @@
  [b \in {"binary", "varbinary", "blob", "tinyblob", "mediumblob",
          "longblob"} |-> "BYTES"] @@
  [b \in {"json"} |-> "JSON"] @@
  [b \in {"bool", "boolean"} |-> "BOOL"]

\* str.lower() on one word
lower(word) ==
  CASE word = "INT" -> "int"
    [] word = "VARCHAR" -> "varchar"
    [] word = "DATETIME" -> "datetime"
    [] word = "UNSIGNED" -> "unsigned"
    [] OTHER -> word

\* mysql_type.split('(')[0]: the words before the first size suffix
RECURSIVE split_paren(_)
split_paren(mysql_type) ==
  IF mysql_type = <<>> \/ Head(mysql_type) \in SizeSuffixes THEN <<>>
  ELSE <<Head(mysql_type)>> \o split_paren(Tail(mysql_type))

\* a translation that leaves the word unsigned in the base type
mysql_type_to_bigquery_keeps_unsigned(mysql_type) ==
  LET lowered == [i \in DOMAIN mysql_type |-> lower(mysql_type[i])]
      base_type == split_paren(lowered)
  IN IF Len(base_type) = 1 /\ base_type[1] \in DOMAIN TYPE_MAPPING
     THEN TYPE_MAPPING[base_type[1]]
     ELSE "STRING"

\* mysql_type_to_bigquery, lines 49-66: the base type is the lower-cased text
\* before the first '(', without the word unsigned when the type string has
\* it; a base type TYPE_MAPPING does not know is a STRING
mysql_type_to_bigquery(mysql_type) ==
  LET lowered == [i \in DOMAIN mysql_type |-> lower(mysql_type[i])]
      head == split_paren(lowered)
      base_type == IF \E i \in DOMAIN lowered : lowered[i] = "unsigned"
                   THEN SelectSeq(head, LAMBDA w : w # "unsigned")
                   ELSE head
  IN IF Len(base_type) = 1 /\ base_type[1] \in DOMAIN TYPE_MAPPING
     THEN TYPE_MAPPING[base_type[1]]
     ELSE "STRING"

\* the column names of a schema (a sequence of fields), as a set
Names(fields) == {fields[i].name : i \in DOMAIN fields}

\* SchemaField(col_name, bq_type, mode='NULLABLE')
SchemaField(col) ==
  [name |-> col.name, type |-> mysql_type_to_bigquery(col.type), mode |-> "NULLABLE"]

\* a schema in which every column is a STRING
create_bigquery_schema_all_strings(cols) ==
  [i \in DOMAIN cols |-> [name |-> cols[i].name, type |-> "STRING", mode |-> "NULLABLE"]]

\* create_bigquery_schema_from_mysql, lines 82-96
create_bigquery_schema_from_mysql(cols) ==
  [i \in DOMAIN cols |-> SchemaField(cols[i])]

\* add_missing_columns, lines 160-171: the fields of the incoming columns
\* whose name the table does not have, in the order of the incoming schema
missing_fields(existing_schema, cols) ==
  LET absent(col) == col.name \notin Names(existing_schema)
  IN create_bigquery_schema_from_mysql(SelectSeq(cols, absent))

\* a reconciliation that writes the incoming schema over the table's
add_missing_columns_overwrite(existing_schema, cols) ==
  [new_columns |-> [i \in DOMAIN missing_fields(existing_schema, cols) |->
                      missing_fields(existing_schema, cols)[i].name],
   schema |-> create_bigquery_schema_from_mysql(cols),
   updated |-> missing_fields(existing_schema, cols) # <<>>]

\* a reconciliation that calls update_table whether or not a column is new
add_missing_columns_always_updates(existing_schema, cols) ==
  [new_columns |-> [i \in DOMAIN missing_fields(existing_schema, cols) |->
                      missing_fields(existing_schema, cols)[i].name],
   schema |-> existing_schema \o missing_fields(existing_schema, cols),
   updated |-> TRUE]

\* a call that returns the name of every incoming column
add_missing_columns_reports_all(existing_schema, cols) ==
  [new_columns |-> [i \in DOMAIN cols |-> cols[i].name],
   schema |-> existing_schema \o missing_fields(existing_schema, cols),
   updated |-> missing_fields(existing_schema, cols) # <<>>]

\* add_missing_columns, lines 155-177, without error: the returned list, the
\* schema of the table afterwards, and whether update_table was called
add_missing_columns(existing_schema, cols) ==
  [new_columns |-> [i \in DOMAIN missing_fields(existing_schema, cols) |->
                      missing_fields(existing_schema, cols)[i].name],
   schema |-> existing_schema \o missing_fields(existing_schema, cols),
   updated |-> missing_fields(existing_schema, cols) # <<>>]

\* ---- MetadataManager ----------------------------------------------------
\* a read whose default, when the query returns no row, is hour 1
get_last_sync_time_late_default(L, t, ok) ==
  IF ok /\ L[t] # NoEntry /\ L[t].status = "SUCCESS"
  THEN Aware(L[t].last_sync_time)
  ELSE Naive(EpochT + 1)

\* get_last_sync_time: SELECT last_sync_time ... WHERE table_name = t AND
\* status = 'SUCCESS' ... LIMIT 1; the epoch when the query returns no row or
\* raises (ok = FALSE).  The row comes back as a UTC-aware datetime, the
\* epoch default is the naive datetime(1970, 1, 1).
get_last_sync_time(L, t, ok) ==
  IF ok /\ L[t] # NoEntry /\ L[t].status = "SUCCESS"
  THEN Aware(L[t].last_sync_time)
  ELSE Naive(EpochT)

\* a conversion that shifts every sync_time to Lagos time, naive ones too
sync_time_str_shifts_naive(sync_time) == sync_time.t + LagosOffset

\* update_metadata, lines 146-151: an aware sync_time is converted to Lagos
\* wall-clock time and stripped of its tzinfo, a naive one is formatted as
\* is; TIMESTAMP('<string>') then reads the string as UTC.
sync_time_str(sync_time) ==
  IF sync_time.aware THEN sync_time.t + LagosOffset ELSE sync_time.t

\* a clause that stores the epoch, not the existing value, for a failed run
sync_time_clause_clears(L, t, sync_time, status) ==
  IF sync_time # NoValue /\ status = "SUCCESS"
  THEN sync_time_str(sync_time)
  ELSE EpochT

\* update_metadata, lines 140-163: the value of S.last_sync_time
sync_time_clause(L, t, sync_time, status) ==
  IF sync_time # NoValue /\ status = "SUCCESS"
  THEN sync_time_str(sync_time)
  ELSE LedgerWm(L, t)            \* COALESCE((SELECT last_sync_time ...), epoch)

\* update_metadata, lines 165-199: the MERGE into the metadata table
metadata_merge(L, t, run_time, sync_time, status, row_count, column_count, remark) ==
  [L EXCEPT ![t] = [last_run_time |-> run_time,
                    last_sync_time |-> sync_time_clause(L, t, sync_time, status),
                    status |-> status,
                    row_count |-> row_count,
                    column_count |-> column_count,
                    remark |-> remark]]

\* ---- MySQLExtractor -----------------------------------------------------
\* SELECT * FROM t WHERE incremental_column > %s (pymysql formats the
\* datetime parameter by its wall-clock fields)
extract_query(rows, since) == {r \in rows : r.wm > since.t}

\* pd.DataFrame(cursor.fetchall()), line 54: the columns are those of the
\* fetched rows (SELECT *), and a DataFrame of no rows has no columns
DataFrame_columns(batch, cols) == IF batch = {} THEN {} ELSE Names(cols)

\* ---- BigQueryHandler ----------------------------------------------------
\* a load job that appends to the staging table (WRITE_APPEND)
load_job_write_append(old_rows, batch) == old_rows \cup batch

\* load_to_staging, lines 68-77: a load job with WRITE_TRUNCATE replaces
\* the rows of the table by those of the DataFrame
load_job(old_rows, batch) == batch

\* a load that reports no rows
load_row_count_zero(batch) == 0

\* load_to_staging, lines 65-66 and 79: the row count it returns without error
load_row_count(batch) == IF batch = {} THEN 0 ELSE Cardinality(batch)

\* a merge that truncates the staging table whatever the MERGE did
staging_after_always_truncated(outcome, rows) == {}

\* merge_staging_to_target, lines 139-147: TRUNCATE TABLE runs after the
\* MERGE statement returned and empties the staging table unless it raises
staging_after(outcome, rows) == IF outcome = "ok" THEN {} ELSE rows

\* a plain INSERT of every staging row, in place of the keyed MERGE
merge_sql_append(T, S) == T (+) SetToBag(S)

\* a MERGE whose update condition is T.wm <= S.wm
merge_sql_non_strict(T, S) ==
  LET Upd(d) == {s \in S : s.pk = d.pk /\ d.wm <= s.wm}
      Image(d) == IF Upd(d) = {} THEN d
                  ELSE LET s == CHOOSE x \in Upd(d) : TRUE
                       IN [pk |-> d.pk, wm |-> s.wm, val |-> s.val]
      Ins == {s \in S : ~(\E d \in DOMAIN T : d.pk = s.pk)}
      Rows == {Image(d) : d \in DOMAIN T} \cup Ins
      RECURSIVE Copies(_, _)
      Copies(r, D) == IF D = {} THEN 0
                      ELSE LET d == CHOOSE x \in D : TRUE
                           IN (IF Image(d) = r THEN T[d] ELSE 0) + Copies(r, D \ {d})
  IN  [r \in Rows |-> Copies(r, DOMAIN T) + (IF r \in Ins THEN 1 ELSE 0)]

\* a MERGE that updates every matched row (WHEN MATCHED THEN UPDATE)
merge_sql_unconditional(T, S) ==
  LET Upd(d) == {s \in S : s.pk = d.pk}
      Image(d) == IF Upd(d) = {} THEN d
                  ELSE LET s == CHOOSE x \in Upd(d) : TRUE
                       IN [pk |-> d.pk, wm |-> s.wm, val |-> s.val]
      Ins == {s \in S : ~(\E d \in DOMAIN T : d.pk = s.pk)}
      Rows == {Image(d) : d \in DOMAIN T} \cup Ins
      RECURSIVE Copies(_, _)
      Copies(r, D) == IF D = {} THEN 0
                      ELSE LET d == CHOOSE x \in D : TRUE
                           IN (IF Image(d) = r THEN T[d] ELSE 0) + Copies(r, D \ {d})
  IN  [r \in Rows |-> Copies(r, DOMAIN T) + (IF r \in Ins THEN 1 ELSE 0)]

\* a MERGE with the comparison of the incremental column in its ON clause:
\* a staging row that is not newer than the target row of its key counts as
\* not matched and is inserted
merge_sql_condition_in_on(T, S) ==
  LET Upd(d) == {s \in S : s.pk = d.pk /\ d.wm < s.wm}
      Image(d) == IF Upd(d) = {} THEN d
                  ELSE LET s == CHOOSE x \in Upd(d) : TRUE
                       IN [pk |-> d.pk, wm |-> s.wm, val |-> s.val]
      Ins == {s \in S : ~(\E d \in DOMAIN T : d.pk = s.pk /\ d.wm < s.wm)}
      Rows == {Image(d) : d \in DOMAIN T} \cup Ins
      RECURSIVE Copies(_, _)
      Copies(r, D) == IF D = {} THEN 0
                      ELSE LET d == CHOOSE x \in D : TRUE
                           IN (IF Image(d) = r THEN T[d] ELSE 0) + Copies(r, D \ {d})
  IN  [r \in Rows |-> Copies(r, DOMAIN T) + (IF r \in Ins THEN 1 ELSE 0)]

\* the MERGE statement of merge_staging_to_target, lines 129-137, on the
\* target bag T and the staging rows S:
\*   ON T.pk = S.pk
\*   WHEN MATCHED AND T.wm < S.wm THEN UPDATE SET every non-key column
\*   WHEN NOT MATCHED THEN INSERT the staging row
merge_sql(T, S) ==
  LET Upd(d) == {s \in S : s.pk = d.pk /\ d.wm < s.wm}
      Image(d) == IF Upd(d) = {} THEN d
                  ELSE LET s == CHOOSE x \in Upd(d) : TRUE
                       IN [pk |-> d.pk, wm |-> s.wm, val |-> s.val]
      Ins == {s \in S : ~(\E d \in DOMAIN T : d.pk = s.pk)}
      Rows == {Image(d) : d \in DOMAIN T} \cup Ins
      RECURSIVE Copies(_, _)
      Copies(r, D) == IF D = {} THEN 0
                      ELSE LET d == CHOOSE x \in D : TRUE
                           IN (IF Image(d) = r THEN T[d] ELSE 0) + Copies(r, D \ {d})
  IN  [r \in Rows |-> Copies(r, DOMAIN T) + (IF r \in Ins THEN 1 ELSE 0)]

\* ---- SyncOrchestrator ---------------------------------------------------
\* a result dict that starts out as SUCCESS
new_result_success(t, run_time) ==
  [table |-> t, status |-> "SUCCESS", run_time |-> run_time,
   sync_time |-> NoValue, row_count |-> 0, column_count |-> 0,
   new_columns |-> <<>>, remark |-> <<>>, last_synced_value |-> NoValue]

\* sync_table, lines 83-93: the result dict a sync_table call starts from
new_result(t, run_time) ==
  [table |-> t, status |-> "FAILED", run_time |-> run_time,
   sync_time |-> NoValue, row_count |-> 0, column_count |-> 0,
   new_columns |-> <<>>, remark |-> <<>>, last_synced_value |-> NoValue]

\* sync_table, lines 186-192: the timestamp the run hands to the ledger
last_synced_value(batch, since) ==
  IF batch # {} THEN Naive(SetMax({r.wm : r \in batch})) ELSE since

\* run_sync_pipeline, lines 222-226
sync_time_to_store(res) ==
  IF res.status = "SUCCESS" /\ res.last_synced_value # NoValue
  THEN res.last_synced_value ELSE NoValue


\* ---- state groups -------------------------------------------------------
Cur == tables[idx]
sourcevars == <<tables, clock, src, auto_increment, src_schema>>
bqvars == <<dest_exists, dest, dest_schema, staging_exists, staging, staging_schema>>
metavars == <<metadata_exists, ledger, ledger_snap, last_success_wm, lost_write>>
loopvars == <<idx, sync_results, runs, md_calls, md_last, wm_before, entry_before,
              dest_before, staging_before>>
\* locals of the running sync_table call and what is observed of its calls
readvars == <<last_synced, read_failed>>
batchvars == <<df, df_columns, src_at_extract>>
schemavars == <<mysql_schema, schema>>
obsvars == <<merged, load_columns>>
callvars == <<readvars, batchvars, schemavars, obsvars>>

\* the external call of a step succeeds (ok), or fails within the budget
Outcome(ok) == \/ ok /\ faults' = faults
               \/ ~ok /\ faults < MaxFaults /\ faults' = faults + 1

\* a component call was made; it returned no error
Called(stage) == /\ stages' = Append(stages, stage)
                 /\ UNCHANGED errored
\* a component call was made and returned an error
Errored(stage) == /\ stages' = Append(stages, stage)
                  /\ errored' = errored \cup {stage}

\* an order in which the extraction comes before the ledger read
StageAfter_extract_first(p) ==
  CASE p = "get_table_schema" -> "get_table"
    [] p = "get_table" -> "add_missing_columns"
    [] p = "add_missing_columns" -> "extract"
    [] p = "extract" -> "get_last_sync_time"
    [] p = "get_last_sync_time" -> "prepare"
    [] p = "prepare" -> "ensure_staging_table"
    [] p = "ensure_staging_table" -> "add_missing_columns_staging"
    [] p = "add_missing_columns_staging" -> "load_to_staging"
    [] p = "load_to_staging" -> "merge"
    [] p = "merge" -> "finish"

\* sync_table, lines 96-192: the order of its steps
StageAfter(p) ==
  CASE p = "get_table_schema" -> "get_table"
    [] p = "get_table" -> "add_missing_columns"
    [] p = "add_missing_columns" -> "get_last_sync_time"
    [] p = "get_last_sync_time" -> "extract"
    [] p = "extract" -> "prepare"
    [] p = "prepare" -> "ensure_staging_table"
    [] p = "ensure_staging_table" -> "add_missing_columns_staging"
    [] p = "add_missing_columns_staging" -> "load_to_staging"
    [] p = "load_to_staging" -> "merge"
    [] p = "merge" -> "finish"

\* the step went through: sync_table goes on to the next one
Proceed == /\ pc' = StageAfter(pc)
           /\ UNCHANGED own_fault

\* a step that sets the remark and goes on, where the code returns
ReturnFailed_no_return(remark) ==
  /\ result' = [result EXCEPT !.remark = remark]
  /\ own_fault' = [own_fault EXCEPT ![Cur] = TRUE]
  /\ pc' = StageAfter(pc)

\* "result['remark'] = ...; return result" of a step whose error ends the run
ReturnFailed(remark) ==
  /\ result' = [result EXCEPT !.remark = remark]
  /\ own_fault' = [own_fault EXCEPT ![Cur] = TRUE]
  /\ pc' = "update_metadata"

\* ---- the source database (environment) ----------------------------------
\* the columns of a source table as DESCRIBE lists them: primary key,
\* incremental column and one further column ...
BaseColumns ==
  << [name |-> "id", type |-> <<"int", "(11)">>],
     [name |-> "updated_at", type |-> <<"datetime">>],
     [name |-> "amount", type |-> <<"decimal", "(10,2)">>] >>
\* ... and the types a column added later may have
AddedColumn == "referral_code"
AddedTypes == { <<"varchar", "(255)">>, <<"int", "(11)", "unsigned">> }

Configured == {tables[i] : i \in 1..Len(tables)}

\* a statement writes row k: its incremental column takes the current time,
\* which is later than every earlier statement; val stands for the content
WriteRow(rows, k, now) ==
  {r \in rows : r.pk # k} \cup {[pk |-> k, wm |-> now, val |-> now]}

\* INSERT: the row gets the next id of the table
SourceInsert(t) ==
  /\ pc = "idle" /\ clock < MaxClock
  /\ t \in Configured /\ auto_increment[t] <= MaxPK
  /\ clock' = clock + 1
  /\ src' = [src EXCEPT ![t] = WriteRow(@, auto_increment[t], clock + 1)]
  /\ auto_increment' = [auto_increment EXCEPT ![t] = @ + 1]
  /\ UNCHANGED <<tables, src_schema, bqvars, metavars, loopvars, callvars, pc, result,
                 own_fault, stages, errored, faults, purevars>>

\* UPDATE of row k
SourceUpdate(t, k) ==
  /\ pc = "idle" /\ clock < MaxClock
  /\ \E r \in src[t] : r.pk = k
  /\ clock' = clock + 1
  /\ src' = [src EXCEPT ![t] = WriteRow(@, k, clock + 1)]
  /\ UNCHANGED <<tables, auto_increment, src_schema, bqvars, metavars, loopvars,
                 callvars, pc, result, own_fault, stages, errored, faults, purevars>>

\* DELETE of row k
SourceDelete(t, k) ==
  /\ pc = "idle" /\ clock < MaxClock
  /\ \E r \in src[t] : r.pk = k
  /\ clock' = clock + 1
  /\ src' = [src EXCEPT ![t] = {r \in @ : r.pk # k}]
  /\ UNCHANGED <<tables, auto_increment, src_schema, bqvars, metavars, loopvars,
                 callvars, pc, result, own_fault, stages, errored, faults, purevars>>

\* ALTER TABLE t ADD COLUMN: the column goes last.  It may run between the
\* DESCRIBE and the SELECT of a sync_table call
SourceAddColumn(t, ty) ==
  /\ pc \in {"idle", "extract"} /\ clock < MaxClock
  /\ t \in Configured /\ AddedColumn \notin Names(src_schema[t])
  /\ clock' = clock + 1
  /\ src_schema' = [src_schema EXCEPT ![t] = Append(@, [name |-> AddedColumn, type |-> ty])]
  /\ UNCHANGED <<tables, src, auto_increment, bqvars, metavars, loopvars, callvars,
                 pc, result, own_fault, stages, errored, faults, purevars>>

\* ALTER TABLE t DROP COLUMN
SourceDropColumn(t) ==
  /\ pc = "idle" /\ clock < MaxClock
  /\ t \in Configured /\ AddedColumn \in Names(src_schema[t])
  /\ clock' = clock + 1
  /\ src_schema' = [src_schema EXCEPT ![t] = SelectSeq(@, LAMBDA c : c.name # AddedColumn)]
  /\ UNCHANGED <<tables, src, auto_increment, bqvars, metavars, loopvars, callvars,
                 pc, result, own_fault, stages, errored, faults, purevars>>

\* ---- run_sync_pipeline --------------------------------------------------
\* lines 206-214: setup_metadata_table creates the metadata table when it is
\* absent (the error it returns is ignored); the result list starts empty
StartPipeline(ok) ==
  /\ pc = "idle" /\ runs < MaxRuns
  /\ IF metadata_exists
     THEN ok /\ UNCHANGED <<metadata_exists, faults>>
     ELSE Outcome(ok) /\ metadata_exists' = ok
  /\ idx' = 1
  /\ sync_results' = <<>>
  /\ own_fault' = [t \in TableNames |-> FALSE]
  /\ md_calls' = [t \in TableNames |-> 0]
  /\ pc' = "sync_table"
  /\ UNCHANGED <<sourcevars, bqvars, ledger, ledger_snap, last_success_wm,
                 lost_write, runs, md_last, wm_before, entry_before, dest_before, staging_before,
                 callvars, result, stages, errored, purevars>>

\* sync_table, lines 69-93
BeginSyncTable ==
  /\ pc = "sync_table"
  /\ result' = new_result(Cur, runs + 1)
  /\ stages' = <<>>
  /\ errored' = {}
  /\ wm_before' = LedgerWm(ledger, Cur)
  /\ entry_before' = ledger[Cur]
  /\ dest_before' = dest[Cur]
  /\ staging_before' = staging[Cur]
  /\ src_at_extract' = {}
  /\ read_failed' = FALSE
  /\ df' = {}
  /\ df_columns' = {}
  /\ mysql_schema' = <<>>
  /\ schema' = <<>>
  /\ merged' = NoValue
  /\ load_columns' = NoValue
  /\ last_synced' = Naive(EpochT)
  /\ pc' = "get_table_schema"
  /\ UNCHANGED <<sourcevars, bqvars, metavars, idx, sync_results, runs, own_fault,
                 md_calls, md_last, faults, purevars>>

\* sync_table, lines 96-100
GetTableSchema(ok) ==
  /\ pc = "get_table_schema"
  /\ Outcome(ok)
  /\ IF ok
     THEN /\ Called("get_table_schema")
          /\ mysql_schema' = src_schema[Cur]
          /\ Proceed
          /\ UNCHANGED result
     ELSE /\ Errored("get_table_schema")
          /\ ReturnFailed(<<"Failed to get MySQL schema">>)
          /\ UNCHANGED mysql_schema
  /\ UNCHANGED <<sourcevars, bqvars, metavars, loopvars, readvars, batchvars, schema,
                 obsvars, purevars>>

\* sync_table, lines 102-114, with create_table_from_mysql_schema.
\*   "present": get_table finds the table, nothing is created;
\*   "created": get_table raises (the table is absent), it is created;
\*   "already_exists": get_table raises although the table exists, the probe
\*       inside create_table_from_mysql_schema finds it;
\*   "failed": creating the table raises
EnsureTargetTable(outcome) ==
  /\ pc = "get_table"
  /\ CASE outcome = "present" ->
            /\ dest_exists[Cur]
            /\ Outcome(TRUE)
            /\ Called("get_table")
            /\ Proceed
            /\ UNCHANGED <<result, dest_exists, dest, dest_schema>>
       [] outcome = "created" ->
            /\ ~dest_exists[Cur]
            /\ Outcome(TRUE)
            /\ Called("create_table")
            /\ dest_exists' = [dest_exists EXCEPT ![Cur] = TRUE]
            /\ dest' = [dest EXCEPT ![Cur] = EmptyBag]
            /\ dest_schema' = [dest_schema EXCEPT
                                ![Cur] = create_bigquery_schema_from_mysql(mysql_schema)]
            /\ result' = [result EXCEPT !.remark = Append(@, "Table created from MySQL schema")]
            /\ Proceed
       [] outcome = "already_exists" ->
            /\ dest_exists[Cur]
            /\ Outcome(FALSE)
            /\ Called("create_table")
            /\ result' = [result EXCEPT !.remark = Append(@, "Table created from MySQL schema")]
            /\ Proceed
            /\ UNCHANGED <<dest_exists, dest, dest_schema>>
       [] outcome = "failed" ->
            /\ Outcome(FALSE)
            /\ Errored("create_table")
            /\ ReturnFailed(<<"Failed to create table">>)
            /\ UNCHANGED <<dest_exists, dest, dest_schema>>
  /\ UNCHANGED <<sourcevars, staging_exists, staging, staging_schema, metavars,
                 loopvars, callvars, purevars>>

\* sync_table, lines 116-124: an error of add_missing_columns is a remark only
AddMissingColumns(ok) ==
  /\ pc = "add_missing_columns"
  /\ Outcome(ok)
  /\ IF ok
     THEN LET ret == add_missing_columns(dest_schema[Cur], mysql_schema)
          IN /\ Called("add_missing_columns")
             /\ dest_schema' = [dest_schema EXCEPT ![Cur] = ret.schema]
             /\ result' = IF ret.new_columns = <<>> THEN result
                           ELSE [result EXCEPT !.new_columns = ret.new_columns,
                                               !.remark = Append(@, "Added columns")]
     ELSE /\ Errored("add_missing_columns")
          /\ result' = [result EXCEPT !.remark = Append(@, "Column addition warning")]
          /\ UNCHANGED dest_schema
  /\ Proceed
  /\ UNCHANGED <<sourcevars, dest_exists, dest, staging_exists, staging,
                 staging_schema, metavars, loopvars, callvars, purevars>>

\* sync_table, lines 126-131: the query raises when the metadata table is
\* missing or the call fails (ok = FALSE)
GetLastSyncTime(ok) ==
  /\ pc = "get_last_sync_time"
  /\ IF metadata_exists THEN Outcome(ok) ELSE ok /\ UNCHANGED faults
  /\ last_synced' = get_last_sync_time(ledger, Cur, ok /\ metadata_exists)
  /\ read_failed' = ~(ok /\ metadata_exists)
  /\ Called("get_last_sync_time")
  /\ Proceed
  /\ UNCHANGED <<sourcevars, bqvars, metavars, loopvars, result, batchvars,
                 schemavars, obsvars, purevars>>

\* sync_table, lines 135-141
Extract(ok) ==
  /\ pc = "extract"
  /\ Outcome(ok)
  /\ IF ok
     THEN /\ Called("extract")
          /\ df' = extract_query(src[Cur], last_synced)
          /\ df_columns' = DataFrame_columns(df', src_schema[Cur])
          /\ src_at_extract' = src[Cur]
          /\ Proceed
          /\ UNCHANGED result
     ELSE /\ Errored("extract")
          /\ ReturnFailed(Append(result.remark, "MySQL extraction failed"))
          /\ UNCHANGED batchvars
  /\ UNCHANGED <<sourcevars, bqvars, metavars, loopvars, readvars, schemavars,
                 obsvars, purevars>>

\* sync_table, line 146 and lines 194-195: prepare_dataframe_with_schema
\* returns an empty DataFrame as it is; a conversion of a non-empty one may
\* raise, which the except clause of sync_table turns into the remark
Prepare(ok) ==
  /\ pc = "prepare"
  /\ IF df = {} THEN ok /\ UNCHANGED faults ELSE Outcome(ok)
  /\ IF ok
     THEN /\ Called("prepare")
          /\ Proceed
          /\ UNCHANGED result
     ELSE /\ Errored("prepare")
          /\ ReturnFailed(<<"Unexpected error">>)
  /\ UNCHANGED <<sourcevars, bqvars, metavars, loopvars, callvars, purevars>>

\* sync_table, lines 148-153, with ensure_staging_table: creates the staging
\* table when it is absent
EnsureStagingTable(ok) ==
  /\ pc = "ensure_staging_table"
  /\ Outcome(ok)
  /\ IF ok
     THEN /\ Called("ensure_staging_table")
          /\ staging_exists' = [staging_exists EXCEPT ![Cur] = TRUE]
          /\ staging_schema' = IF staging_exists[Cur] THEN staging_schema
                                ELSE [staging_schema EXCEPT ![Cur] = dest_schema[Cur]]
          /\ schema' = dest_schema[Cur]
          /\ Proceed
          /\ UNCHANGED result
     ELSE /\ Errored("ensure_staging_table")
          /\ ReturnFailed(Append(result.remark, "Staging table error"))
          /\ UNCHANGED <<staging_exists, staging_schema, schema>>
  /\ UNCHANGED <<sourcevars, dest_exists, dest, dest_schema, staging, metavars,
                 loopvars, readvars, batchvars, mysql_schema, obsvars, purevars>>

\* sync_table, lines 155-160
AddMissingColumnsStaging(ok) ==
  /\ pc = "add_missing_columns_staging"
  /\ Outcome(ok)
  /\ IF ok
     THEN /\ Called("add_missing_columns_staging")
          /\ staging_schema' =
               [staging_schema EXCEPT
                  ![Cur] = add_missing_columns(@, mysql_schema).schema]
          /\ UNCHANGED result
     ELSE /\ Errored("add_missing_columns_staging")
          /\ result' = [result EXCEPT !.remark = Append(@, "Staging schema update warning")]
          /\ UNCHANGED staging_schema
  /\ Proceed
  /\ UNCHANGED <<sourcevars, dest_exists, dest, dest_schema, staging_exists, staging,
                 metavars, loopvars, callvars, purevars>>

\* sync_table, lines 162-168, with load_to_staging: nothing is loaded for an
\* empty DataFrame; a load job with WRITE_TRUNCATE replaces the rows and the
\* schema of the table by those of the job.  Whether a job whose DataFrame
\* columns differ from its schema is accepted is decided outside this
\* repository: both outcomes are possible
LoadToStaging(ok) ==
  /\ pc = "load_to_staging"
  /\ CASE df = {} -> ok /\ UNCHANGED faults
       [] df # {} /\ df_columns = Names(schema) -> Outcome(ok)
       [] OTHER -> UNCHANGED faults
  /\ IF df = {}
     THEN /\ Called("load_to_staging")
          /\ result' = [result EXCEPT !.row_count = load_row_count(df)]
          /\ Proceed
          /\ UNCHANGED <<staging, staging_schema, load_columns>>
     ELSE /\ load_columns' = [batch |-> df_columns,
                              dest |-> Names(dest_schema[Cur]),
                              staging |-> Names(staging_schema[Cur])]
          /\ IF ok
             THEN /\ Called("load_to_staging")
                  /\ staging' = [staging EXCEPT ![Cur] = load_job(@, df)]
                  /\ staging_schema' = [staging_schema EXCEPT ![Cur] = schema]
                  /\ result' = [result EXCEPT !.row_count = load_row_count(df)]
                  /\ Proceed
             ELSE /\ Errored("load_to_staging")
                  /\ ReturnFailed(Append(result.remark, "Load to staging failed"))
                  /\ UNCHANGED <<staging, staging_schema>>
  /\ UNCHANGED <<sourcevars, dest_exists, dest, dest_schema, staging_exists, metavars,
                 loopvars, readvars, batchvars, schemavars, merged, purevars>>

\* sync_table, lines 170-181, with merge_staging_to_target: no statement is
\* run for an empty DataFrame; otherwise the MERGE statement and then the
\* TRUNCATE of the staging table, either of which may raise
MergeStagingToTarget(outcome) ==
  /\ pc = "merge"
  /\ IF df = {} THEN outcome = "ok" /\ UNCHANGED faults ELSE Outcome(outcome = "ok")
  /\ IF df = {}
     THEN /\ Called("merge")
          /\ result' = [result EXCEPT !.remark = Append(@, "No new or updated rows")]
          /\ Proceed
          /\ UNCHANGED <<dest, staging, merged>>
     ELSE CASE outcome = "ok" ->
                 /\ Called("merge")
                 /\ dest' = [dest EXCEPT ![Cur] = merge_sql(@, staging[Cur])]
                 /\ merged' = [rows |-> staging[Cur]]
                 /\ staging' = [staging EXCEPT ![Cur] = staging_after(outcome, @)]
                 /\ result' = [result EXCEPT !.remark = Append(@, "Merge completed successfully")]
                 /\ Proceed
            [] outcome = "merge_failed" ->
                 /\ Errored("merge")
                 /\ staging' = [staging EXCEPT ![Cur] = staging_after(outcome, @)]
                 /\ ReturnFailed(Append(result.remark, "Merge failed"))
                 /\ UNCHANGED <<dest, merged>>
            [] outcome = "truncate_failed" ->
                 /\ Errored("merge")
                 /\ dest' = [dest EXCEPT ![Cur] = merge_sql(@, staging[Cur])]
                 /\ merged' = [rows |-> staging[Cur]]
                 /\ staging' = [staging EXCEPT ![Cur] = staging_after(outcome, @)]
                 /\ ReturnFailed(Append(result.remark, "Merge failed"))
  /\ UNCHANGED <<sourcevars, dest_exists, dest_schema, staging_exists, staging_schema,
                 metavars, loopvars, readvars, batchvars, schemavars, load_columns,
                 purevars>>

\* sync_table, lines 182-197
Finish ==
  /\ pc = "finish"
  /\ result' = [result EXCEPT !.status = "SUCCESS",
                              !.sync_time = runs + 1,
                              !.last_synced_value = last_synced_value(df, last_synced)]
  /\ pc' = "update_metadata"
  /\ UNCHANGED <<sourcevars, bqvars, metavars, loopvars, callvars, own_fault,
                 stages, errored, faults, purevars>>

\* an outcome list whose entry a ledger write error turns into FAILED
reported_result_masked(res, ledger_error) ==
  IF ledger_error THEN [res EXCEPT !.status = "FAILED"] ELSE res

\* run_sync_pipeline, lines 218-241: the result of sync_table is appended to
\* the list before update_metadata is called, and what update_metadata
\* returns is dropped
reported_result(res, ledger_error) == res

\* a loop that ends at the first table whose run FAILED
NextTable_stop_on_failure ==
  IF idx < Len(tables) /\ result.status # "FAILED"
  THEN /\ idx' = idx + 1
       /\ pc' = "sync_table"
  ELSE /\ idx' = idx
       /\ pc' = "notify"

\* run_sync_pipeline, line 217: "for table_config in self.config.tables"
NextTable ==
  IF idx < Len(tables)
  THEN /\ idx' = idx + 1
       /\ pc' = "sync_table"
  ELSE /\ idx' = idx
       /\ pc' = "notify"

\* run_sync_pipeline, lines 219-241: the result is appended and
\* update_metadata is called; its MERGE raises when the metadata table is
\* missing or the call fails (ok = FALSE), and the returned error is ignored
UpdateMetadata(ok) ==
  /\ pc = "update_metadata"
  /\ IF metadata_exists THEN Outcome(ok) ELSE ok /\ UNCHANGED faults
  /\ sync_results' = Append(sync_results,
                            reported_result(result, ~(ok /\ metadata_exists)))
  /\ md_calls' = [md_calls EXCEPT ![Cur] = @ + 1]
  /\ md_last' = [table |-> Cur, sync_time |-> sync_time_to_store(result),
                 status |-> result.status, remark |-> result.remark,
                 written |-> (ok /\ metadata_exists)]
  /\ IF ok /\ metadata_exists
     THEN /\ ledger' = metadata_merge(ledger, Cur, result.run_time,
                                      sync_time_to_store(result), result.status,
                                      result.row_count, result.column_count,
                                      result.remark)
          /\ ledger_snap' = [ledger_snap EXCEPT ![Cur] = src_at_extract]
          /\ last_success_wm' =
               IF result.status = "SUCCESS"
               THEN [last_success_wm EXCEPT ![Cur] = [t |-> LedgerWm(ledger', Cur)]]
               ELSE last_success_wm
     ELSE UNCHANGED <<ledger, ledger_snap, last_success_wm>>
  /\ lost_write' =
       [lost_write EXCEPT ![Cur] =
          IF result.status = "SUCCESS" /\ df # {} /\ ~(ok /\ metadata_exists)
          THEN [df |-> df, dest |-> dest[Cur], src |-> src_at_extract,
                entry |-> entry_before, read_failed |-> read_failed]
          ELSE NoValue]
  /\ NextTable
  /\ UNCHANGED <<sourcevars, bqvars, metadata_exists, runs, own_fault, wm_before,
                 entry_before, dest_before, staging_before,
                 result, callvars, stages, errored, purevars>>

\* run_sync_pipeline, lines 243-263: notifications, return sync_results
Notify ==
  /\ pc = "notify"
  /\ runs' = runs + 1
  /\ pc' = "idle"
  /\ idx' = 1
  /\ sync_results' = <<>>
  /\ result' = NoValue
  /\ df' = {}
  /\ last_synced' = Naive(EpochT)
  /\ stages' = <<>>
  /\ errored' = {}
  /\ wm_before' = EpochT
  /\ entry_before' = NoEntry
  /\ dest_before' = EmptyBag
  /\ staging_before' = {}
  /\ df_columns' = {}
  /\ mysql_schema' = <<>>
  /\ schema' = <<>>
  /\ merged' = NoValue
  /\ load_columns' = NoValue
  /\ src_at_extract' = {}
  /\ read_failed' = FALSE
  /\ md_last' = NoValue
  /\ own_fault' = [t \in TableNames |-> FALSE]
  /\ md_calls' = [t \in TableNames |-> 0]
  /\ UNCHANGED <<sourcevars, bqvars, metavars, faults, purevars>>

\* ---- specifications -----------------------------------------------------
MergeIdle ==
  /\ mD = EmptyBag /\ mS = {} /\ mOnce = EmptyBag /\ mTwice = EmptyBag
  /\ mpc = "off"

ColumnsIdle ==
  /\ col_table = <<>> /\ col_incoming = <<>>
  /\ col_after_first = <<>> /\ col_after_second = <<>>
  /\ col_first = NoValue /\ col_second = NoValue
  /\ col_pc = "off"

LedgerIdle == lg = EmptyBag /\ wr = [w \in {1, 2} |-> NoValue] /\ lg_obs = <<>>

NoCall == [pc |-> "idle", fn |-> "none", table |-> "none", rows |-> {},
           since |-> Naive(EpochT), tunnel |-> "none", connection |-> "none",
           cause |-> "none", ret |-> NoValue]

ExtractorIdle == ex = NoCall /\ ex_calls = 0 /\ ex_result = NoValue

NotInvoked == [pc |-> "off", last_synced |-> Naive(EpochT), df |-> {}]

OverlapIdle == inv = [i \in {1, 2} |-> NotInvoked]

TypesIdle == ty_in = <<>> /\ ty_out = "" /\ ty_again = "" /\ ty_pc = "off"

RefsIdle == rf = NoValue

V2Idle == v2 = NoValue

OthersIdle == RefsIdle /\ V2Idle

SideIdle == LedgerIdle /\ ExtractorIdle /\ OverlapIdle /\ TypesIdle /\ OthersIdle

\* the state after construction, before the first invocation
Fresh ==
  /\ dest_exists = [t \in TableNames |-> FALSE]
  /\ dest = [t \in TableNames |-> EmptyBag]
  /\ dest_schema = [t \in TableNames |-> <<>>]
  /\ staging_exists = [t \in TableNames |-> FALSE]
  /\ staging = [t \in TableNames |-> {}]
  /\ staging_schema = [t \in TableNames |-> <<>>]
  /\ metadata_exists = FALSE
  /\ ledger = [t \in TableNames |-> NoEntry]
  /\ ledger_snap = [t \in TableNames |-> {}]
  /\ last_success_wm = [t \in TableNames |-> NoValue]
  /\ lost_write = [t \in TableNames |-> NoValue]
  /\ pc = "idle"
  /\ idx = 1
  /\ result = NoValue
  /\ last_synced = Naive(EpochT)
  /\ df = {}
  /\ sync_results = <<>>
  /\ runs = 0
  /\ stages = <<>>
  /\ errored = {}
  /\ wm_before = EpochT
  /\ entry_before = NoEntry
  /\ dest_before = EmptyBag
  /\ staging_before = {}
  /\ df_columns = {}
  /\ mysql_schema = <<>>
  /\ schema = <<>>
  /\ merged = NoValue
  /\ load_columns = NoValue
  /\ src_at_extract = {}
  /\ own_fault = [t \in TableNames |-> FALSE]
  /\ md_calls = [t \in TableNames |-> 0]
  /\ md_last = NoValue
  /\ read_failed = FALSE
  /\ faults = 0

\* one configured table, an empty source that is written while the
\* pipeline is invoked again and again
Init ==
  /\ tables = <<"orders">>
  /\ clock = 0
  /\ src = [t \in TableNames |-> {}]
  /\ auto_increment = [t \in TableNames |-> 1]
  /\ src_schema = [t \in TableNames |-> BaseColumns]
  /\ Fresh
  /\ MergeIdle
  /\ ColumnsIdle
  /\ SideIdle

Pipeline ==
  \/ \E ok \in BOOLEAN : StartPipeline(ok)
  \/ BeginSyncTable
  \/ \E ok \in BOOLEAN : GetTableSchema(ok)
  \/ \E o \in {"present", "created", "already_exists", "failed"} : EnsureTargetTable(o)
  \/ \E ok \in BOOLEAN : AddMissingColumns(ok)
  \/ \E ok \in BOOLEAN : GetLastSyncTime(ok)
  \/ \E ok \in BOOLEAN : Extract(ok)
  \/ \E ok \in BOOLEAN : Prepare(ok)
  \/ \E ok \in BOOLEAN : EnsureStagingTable(ok)
  \/ \E ok \in BOOLEAN : AddMissingColumnsStaging(ok)
  \/ \E ok \in BOOLEAN : LoadToStaging(ok)
  \/ \E o \in {"ok", "merge_failed", "truncate_failed"} : MergeStagingToTarget(o)
  \/ Finish
  \/ \E ok \in BOOLEAN : UpdateMetadata(ok)
  \/ Notify

Next ==
  \/ \E t \in TableNames : SourceInsert(t)
  \/ \E t \in TableNames, k \in PKs : SourceUpdate(t, k)
  \/ \E t \in TableNames, k \in PKs : SourceDelete(t, k)
  \/ Pipeline

Spec == Init /\ [][Next]_vars

\* two configured tables, each holding the rows 1..n (n <= MaxPK) written at
\* the hours 1..n; the source is not written while the pipeline is invoked
InitTables ==
  /\ tables = <<"orders", "users">>
  /\ clock = MaxPK
  /\ \E n \in [TableNames -> 0..MaxPK] :
       /\ src = [t \in TableNames |->
                   {[pk |-> k, wm |-> k, val |-> k] : k \in 1..n[t]}]
       /\ auto_increment = [t \in TableNames |-> n[t] + 1]
  /\ src_schema = [t \in TableNames |-> BaseColumns]
  /\ Fresh
  /\ MergeIdle
  /\ ColumnsIdle
  /\ SideIdle

NextTables == Pipeline

SpecTables == InitTables /\ [][NextTables]_vars

\* one configured table whose rows are inserted and whose columns are added
\* and dropped while the pipeline is invoked again and again
NextSchema ==
  \/ \E t \in TableNames : SourceInsert(t)
  \/ \E t \in TableNames, ty \in AddedTypes : SourceAddColumn(t, ty)
  \/ \E t \in TableNames : SourceDropColumn(t)
  \/ Pipeline

SpecSchema == Init /\ [][NextSchema]_vars

\* ---- the MERGE statement alone ------------------------------------------
MergeRows == [pk : PKs, wm : MergeWms, val : Vals]

SeqToBag(q) ==
  [r \in {q[i] : i \in DOMAIN q} |-> Cardinality({i \in DOMAIN q : q[i] = r})]

\* target tables of at most MaxPK rows; a target table may hold a key twice
DestStates == {SeqToBag(q) : q \in UNION {[1..n -> MergeRows] : n \in 0..MaxPK}}

\* staging batches: at most one row per primary key
StagingBatches ==
  {B \in SUBSET MergeRows : \A r1, r2 \in B : r1.pk = r2.pk => r1 = r2}

InitMerge ==
  /\ tables = <<"orders">>
  /\ clock = 0
  /\ src = [t \in TableNames |-> {}]
  /\ auto_increment = [t \in TableNames |-> 1]
  /\ src_schema = [t \in TableNames |-> BaseColumns]
  /\ Fresh
  /\ mD \in DestStates
  /\ mS \in StagingBatches
  /\ mOnce = EmptyBag
  /\ mTwice = EmptyBag
  /\ mpc = "start"
  /\ ColumnsIdle
  /\ SideIdle

\* the MERGE statement is executed on target mD with staging mS ...
MergeOnce ==
  /\ mpc = "start"
  /\ mOnce' = merge_sql(mD, mS)
  /\ mpc' = "once"
  /\ UNCHANGED <<mainvars, mD, mS, mTwice, colvars, sidevars>>

\* ... and a second time, with the same staging rows, on its own result
MergeAgain ==
  /\ mpc = "once"
  /\ mTwice' = merge_sql(mOnce, mS)
  /\ mpc' = "twice"
  /\ UNCHANGED <<mainvars, mD, mS, mOnce, colvars, sidevars>>

NextMerge == MergeOnce \/ MergeAgain

SpecMerge == InitMerge /\ [][NextMerge]_vars

\* ---- claims --------------------------------------------------------------
\* the run of a table has returned and its update_metadata call is over
\* (the locals of the run are still those of that table)
RunOver == pc \in {"sync_table", "notify"} /\ md_last # NoValue
Last == md_last.table

\* C1: when an earlier run ended SUCCESS and stored watermark W and the
\* latest run ended FAILED with its ledger update written, the threshold
\* the next run gets from get_last_sync_time and hands to
\* extract_incremental_data is W (the ledger read itself not failing)
C1_ResumesFromStoredWatermark ==
  (/\ pc = "extract" /\ ~read_failed
   /\ ledger[Cur] # NoEntry /\ ledger[Cur].status = "FAILED"
   /\ last_success_wm[Cur] # NoValue)
  => last_synced.t = last_success_wm[Cur].t

\* C2: after the update_metadata of a run that ended FAILED, the stored
\* last_sync_time of the table is its value before the run (the epoch for
\* an absent entry); only a run that ended SUCCESS changes it
C2_FailedRunKeepsWatermark ==
  RunOver =>
    /\ md_last.status = "FAILED" => LedgerWm(ledger, Last) = wm_before
    /\ LedgerWm(ledger, Last) # wm_before => md_last.status = "SUCCESS"

\* C2 witness: a FAILED run wrote the entry of a table that had a watermark
C2_Witness ==
  /\ RunOver /\ md_last.status = "FAILED" /\ md_last.written
  /\ wm_before > EpochT /\ ledger[Last].status = "FAILED"

\* C3: the stored last_sync_time after a run is greater than or equal to
\* its value before that run
C3_WatermarkMonotone ==
  RunOver => LedgerWm(ledger, Last) >= wm_before

\* C4: after a run that ended SUCCESS with a non-empty batch and whose
\* ledger update was written, the stored watermark is the maximum of the
\* incremental column over the extracted rows
C4_StoresBatchMaximum ==
  (RunOver /\ md_last.status = "SUCCESS" /\ md_last.written /\ df # {})
  => ledger[Last].last_sync_time = SetMax({r.wm : r \in df})

\* C4 witness: such a run with two extracted rows of different watermarks
C4_Witness ==
  /\ RunOver /\ md_last.status = "SUCCESS" /\ md_last.written
  /\ \E r1, r2 \in df : r1.wm < r2.wm
  /\ ledger[Last].last_sync_time = SetMax({r.wm : r \in df})

\* C5: whenever the ledger entry of a table has status SUCCESS and
\* watermark W, every source row that existed when that run extracted and
\* has watermark <= W has a destination row with its key and a watermark at
\* least as large
C5_NoRowLost ==
  \A t \in TableNames :
    (ledger[t] # NoEntry /\ ledger[t].status = "SUCCESS") =>
      \A r \in ledger_snap[t] :
        r.wm <= ledger[t].last_sync_time =>
          \E d \in DOMAIN dest[t] : d.pk = r.pk /\ d.wm >= r.wm

\* number of rows of bag B with primary key k
RECURSIVE KeyCountOver(_, _, _)
KeyCountOver(B, k, D) ==
  IF D = {} THEN 0
  ELSE LET d == CHOOSE x \in D : TRUE
       IN (IF d.pk = k THEN B[d] ELSE 0) + KeyCountOver(B, k, D \ {d})
KeyCount(B, k) == KeyCountOver(B, k, DOMAIN B)

Merged == mpc \in {"once", "twice"}

\* C6: for every target table and every staging batch with unique keys, the
\* MERGE applied a second time with the same batch leaves the target as the
\* first application left it (same rows, same number of copies)
C6_MergeIdempotent ==
  mpc = "twice" => mTwice = mOnce

\* C6 witness: the first application updated a row and inserted another
C6_Witness ==
  /\ mpc = "twice"
  /\ \E d \in DOMAIN mD, s \in mS : d.pk = s.pk /\ d.wm < s.wm
  /\ \E s \in mS : \A d \in DOMAIN mD : d.pk # s.pk
  /\ mOnce # mD /\ mTwice = mOnce

\* C7: the merge policy, row by row.  A target row d with a staging row s of
\* its key and s.wm > d.wm takes every non-key value of s; with d.wm >= s.wm
\* it stays; a staging row whose key the target lacks is inserted in full;
\* target rows whose key is not in staging stay; no key gains or loses rows
\* unless it was absent
C7_MergePolicy ==
  Merged =>
    /\ \A d \in DOMAIN mD, s \in mS :
         (s.pk = d.pk /\ s.wm > d.wm) =>
           /\ d \notin DOMAIN mOnce
           /\ CopiesIn([pk |-> d.pk, wm |-> s.wm, val |-> s.val], mOnce) >= mD[d]
    /\ \A d \in DOMAIN mD, s \in mS :
         (s.pk = d.pk /\ d.wm >= s.wm) => CopiesIn(d, mOnce) >= mD[d]
    /\ \A s \in mS :
         (\A d \in DOMAIN mD : d.pk # s.pk) =>
           /\ CopiesIn(s, mOnce) = 1
           /\ KeyCount(mOnce, s.pk) = 1
    /\ \A d \in DOMAIN mD :
         (\A s \in mS : s.pk # d.pk) => CopiesIn(d, mOnce) = mD[d]
    /\ \A k \in PKs :
         KeyCount(mD, k) > 0 => KeyCount(mOnce, k) = KeyCount(mD, k)

\* C7 witness: the stale duplicate of the scenario (same key, same
\* watermark, amount 999 against 100) left the target row as it was
C7_Witness ==
  /\ Merged
  /\ mD = SetToBag({[pk |-> 1, wm |-> 1, val |-> 100]})
  /\ mS = {[pk |-> 1, wm |-> 1, val |-> 999]}
  /\ mOnce = mD

\* the calls whose error ends the run of the table
FatalCalls == {"get_table_schema", "create_table", "extract",
               "ensure_staging_table", "load_to_staging", "merge"}
CalledStages == {stages[i] : i \in 1..Len(stages)}

\* C8: the list run_sync_pipeline returns has one entry per configured
\* table, in configuration order; a table is FAILED exactly when one of its
\* own stages failed, whatever happened to the other tables
C8_FaultIsolation ==
  pc = "notify" =>
    /\ Len(sync_results) = Len(tables)
    /\ \A k \in 1..Len(tables) :
         /\ sync_results[k].table = tables[k]
         /\ sync_results[k].status = "FAILED" <=> own_fault[tables[k]]
         /\ sync_results[k].status = "SUCCESS" <=> ~own_fault[tables[k]]

\* C8 witness: the first table failed and the second one succeeded
C8_Witness ==
  /\ pc = "notify" /\ Len(sync_results) = 2
  /\ sync_results[1].status = "FAILED" /\ sync_results[2].status = "SUCCESS"
  /\ sync_results[2].row_count > 0

\* C9: sync_table returns SUCCESS only if extraction, load to staging and
\* merge were each called in that run and returned no error; a run in which
\* one of them returned an error, or a step raised, returns FAILED
C9_SuccessNeedsAllThree ==
  pc = "update_metadata" =>
    /\ result.status = "SUCCESS" =>
         /\ {"extract", "load_to_staging", "merge"} \subseteq CalledStages
         /\ errored \cap {"extract", "load_to_staging", "merge", "prepare"} = {}
    /\ errored \cap {"extract", "load_to_staging", "merge", "prepare"} # {} =>
         result.status = "FAILED"

\* C9 witness: a run that extracted, loaded and merged rows returned SUCCESS
C9_Witness ==
  /\ pc = "update_metadata" /\ result.status = "SUCCESS"
  /\ df # {} /\ result.row_count = Cardinality(df)

\* the remark a failed call leaves last in the result
FailureRemark(stage) ==
  CASE stage = "get_table_schema" -> "Failed to get MySQL schema"
    [] stage = "create_table" -> "Failed to create table"
    [] stage = "extract" -> "MySQL extraction failed"
    [] stage = "ensure_staging_table" -> "Staging table error"
    [] stage = "load_to_staging" -> "Load to staging failed"
    [] stage = "merge" -> "Merge failed"

C11_ColumnAdditionFailureFails ==
  (pc = "update_metadata"
     /\ errored \cap {"add_missing_columns", "add_missing_columns_staging"} # {})
    => result.status = "FAILED"

\* the calls of the run whose error ends it
NoFatalError == errored \cap FatalCalls = {} /\ "prepare" \notin errored

\* C12: after a run whose extraction returned no rows and no call failed,
\* the row count is 0, no MERGE statement was executed, the status is SUCCESS
\* and, the ledger update being written, the stored watermark is the one
\* stored before the run
C12_EmptyExtractionKeepsWatermark ==
  (RunOver /\ "extract" \in CalledStages /\ df = {} /\ NoFatalError) =>
    /\ md_last.status = "SUCCESS"
    /\ sync_results[Len(sync_results)].row_count = 0
    /\ merged = NoValue
    /\ dest[Last] = dest_before
    /\ md_last.written => LedgerWm(ledger, Last) = wm_before

\* the run of the table made every call and none failed, the ledger read and
\* the ledger write included
RunWithoutFailure ==
  /\ RunOver /\ errored = {} /\ ~read_failed /\ md_last.written
  /\ "merge" \in CalledStages

\* C13: a run without failures that started with no ledger entry for the
\* table and no row in the destination read the epoch as its threshold,
\* extracted every source row, left in the destination exactly one row per
\* source row, and wrote a SUCCESS entry whose watermark is the greatest row
\* watermark (the epoch for a source without rows)
C13_FirstRunCopiesEverything ==
  (RunWithoutFailure /\ entry_before = NoEntry /\ dest_before = EmptyBag) =>
    /\ last_synced = Naive(EpochT)
    /\ df = src_at_extract
    /\ dest[Last] = SetToBag(src_at_extract)
    /\ ledger[Last].status = "SUCCESS"
    /\ ledger[Last].last_sync_time = SetMax({r.wm : r \in src_at_extract})

\* C13 witness: the first run of a table with two rows
C13_Witness ==
  /\ RunWithoutFailure /\ entry_before = NoEntry /\ dest_before = EmptyBag
  /\ Cardinality(src_at_extract) = 2
  /\ dest[Last] = SetToBag(src_at_extract)
  /\ ledger[Last].last_sync_time = 2

\* the fields of a schema, as a set
Fields(fields) == {fields[i] : i \in DOMAIN fields}

\* C14: no step removes a column of a target table or changes the type of
\* one (every field stays, and stays the only field of its name); and when
\* add_missing_columns has returned without error for the target table,
\* every column of the incoming source schema is in the target schema
C14_ForwardOnlySchema ==
  /\ [][\A t \in TableNames : \A f \in Fields(dest_schema[t]) :
          /\ f \in Fields(dest_schema'[t])
          /\ \A g \in Fields(dest_schema'[t]) : g.name = f.name => g = f]_vars
  /\ []((pc = "get_last_sync_time" /\ "add_missing_columns" \notin errored)
          => Names(mysql_schema) \subseteq Names(dest_schema[Cur]))

\* C14 witness: the source dropped a column the target has; a later run
\* reconciled the target with the smaller source schema and the column is
\* still there, with the type it was created with
C14_Witness ==
  /\ pc = "get_last_sync_time" /\ "add_missing_columns" \notin errored
  /\ AddedColumn \notin Names(mysql_schema)
  /\ \E f \in Fields(dest_schema[Cur]) : f.name = AddedColumn /\ f.type = "STRING"

\* C15: at every call of load_to_staging with a non-empty batch, every
\* column of the batch is a column of the target table and of the staging
\* table
C15_BatchColumnsInBothSchemas ==
  load_columns # NoValue =>
    /\ load_columns.batch \subseteq load_columns.dest
    /\ load_columns.batch \subseteq load_columns.staging

\* ---- add_missing_columns alone --------------------------------------------
ColumnNames == {"id", "amount", "referral_code"}

\* sequences of distinct column names
NameLists ==
  {q \in UNION {[1..n -> ColumnNames] : n \in 0..Cardinality(ColumnNames)} :
     \A i, j \in DOMAIN q : q[i] = q[j] => i = j}

\* schemas of an existing table: the columns may have any of two types
TableSchemas ==
  UNION {{[i \in DOMAIN q |-> [name |-> q[i], type |-> ty[i], mode |-> "NULLABLE"]] :
            ty \in [DOMAIN q -> {"INT64", "STRING"}]} : q \in NameLists}

\* incoming MySQL schemas
IncomingSchemas ==
  UNION {{[i \in DOMAIN q |-> [name |-> q[i], type |-> ty[i]]] :
            ty \in [DOMAIN q -> {<<"int", "(11)">>, <<"varchar", "(255)">>}]} :
         q \in NameLists}

InitColumns ==
  /\ tables = <<"orders">>
  /\ clock = 0
  /\ src = [t \in TableNames |-> {}]
  /\ auto_increment = [t \in TableNames |-> 1]
  /\ src_schema = [t \in TableNames |-> BaseColumns]
  /\ Fresh
  /\ MergeIdle
  /\ col_table \in TableSchemas
  /\ col_incoming \in IncomingSchemas
  /\ col_after_first = <<>> /\ col_after_second = <<>>
  /\ col_first = NoValue /\ col_second = NoValue
  /\ col_pc = "start"
  /\ SideIdle

\* add_missing_columns is called on the table with the incoming schema ...
AddColumnsOnce ==
  /\ col_pc = "start"
  /\ LET ret == add_missing_columns(col_table, col_incoming)
     IN /\ col_first' = [new_columns |-> ret.new_columns, updated |-> ret.updated]
        /\ col_after_first' = ret.schema
  /\ col_pc' = "once"
  /\ UNCHANGED <<mainvars, mergevars, col_table, col_incoming, col_after_second,
                 col_second, sidevars>>

\* ... and again, right after, with the same incoming schema
AddColumnsAgain ==
  /\ col_pc = "once"
  /\ LET ret == add_missing_columns(col_after_first, col_incoming)
     IN /\ col_second' = [new_columns |-> ret.new_columns, updated |-> ret.updated]
        /\ col_after_second' = ret.schema
  /\ col_pc' = "twice"
  /\ UNCHANGED <<mainvars, mergevars, col_table, col_incoming, col_after_first,
                 col_first, sidevars>>

NextColumns == AddColumnsOnce \/ AddColumnsAgain

SpecColumns == InitColumns /\ [][NextColumns]_vars

\* C16: the first call returns the incoming column names the table lacks
\* (each once, in the order of the incoming schema), the table then has its
\* old fields followed by those columns, and update_table was called exactly
\* when the list is not empty; the second call returns the empty list,
\* calls no update_table and leaves the schema as it is
C16_AddMissingColumnsIdempotent ==
  /\ col_pc \in {"once", "twice"} =>
       /\ {col_first.new_columns[i] : i \in DOMAIN col_first.new_columns}
            = Names(col_incoming) \ Names(col_table)
       /\ \A i, j \in DOMAIN col_first.new_columns :
            i < j => \E a, b \in DOMAIN col_incoming :
                       /\ a < b
                       /\ col_incoming[a].name = col_first.new_columns[i]
                       /\ col_incoming[b].name = col_first.new_columns[j]
       /\ SubSeq(col_after_first, 1, Len(col_table)) = col_table
       /\ Len(col_after_first) = Len(col_table) + Len(col_first.new_columns)
       /\ \A i \in DOMAIN col_first.new_columns :
            col_after_first[Len(col_table) + i].name = col_first.new_columns[i]
       /\ col_first.updated <=> col_first.new_columns # <<>>
  /\ col_pc = "twice" =>
       /\ col_second.new_columns = <<>>
       /\ ~col_second.updated
       /\ col_after_second = col_after_first

\* C16 witness: the first call added two columns to a table that had one
C16_Witness ==
  /\ col_pc = "twice"
  /\ Len(col_table) = 1 /\ Len(col_first.new_columns) = 2
  /\ col_first.updated /\ col_second.new_columns = <<>>

\* C17: whenever the MERGE statement ran in a run, the staging rows it read
\* are exactly the batch that run extracted
C17_MergeReadsOwnBatch ==
  merged # NoValue => merged.rows = df /\ df = extract_query(src_at_extract, last_synced)

\* C17 witness: an earlier failed run left rows in the staging table, and
\* the MERGE of this run read this run's batch, which is another set of rows
C17_Witness ==
  /\ merged # NoValue /\ merged.rows = df
  /\ staging_before # {} /\ staging_before # df
  /\ ~(staging_before \subseteq df)

\* C18: after every run whose merge step returned without error the staging
\* table of the table is empty
C18_StagingEmptyAfterMerge ==
  (RunOver /\ "merge" \in CalledStages /\ "merge" \notin errored) =>
    staging[Last] = {}

\* C19: after a run whose merge step returned an error, the staging table
\* holds the rows loaded in that run, the status handed to update_metadata
\* is FAILED and the stored watermark is the one stored before the run
C19_MergeFailureKeepsStaging ==
  (RunOver /\ "merge" \in errored) =>
    /\ staging[Last] = df
    /\ md_last.status = "FAILED"
    /\ md_last.sync_time = NoValue
    /\ LedgerWm(ledger, Last) = wm_before

\* C19 witness: the MERGE statement itself raised (it changed nothing) on a
\* batch of one row, with a watermark already stored by an earlier run
C19_Witness ==
  /\ RunOver /\ "merge" \in errored /\ merged = NoValue
  /\ md_last.written /\ ledger[Last].status = "FAILED"
  /\ df # {} /\ staging[Last] = df /\ dest[Last] = dest_before
  /\ wm_before > EpochT

\* C20: every load_to_staging step.  With an empty batch it returns without
\* error, the row count is 0 and no staging table changes; with a non-empty
\* batch and no error the row count is the size of the batch and the staging
\* table holds exactly the rows of the batch; with an error the row count of
\* the run stays 0 and the run ends
C20_LoadToStaging ==
  [][pc = "load_to_staging" =>
       /\ df = {} =>
            /\ "load_to_staging" \notin errored'
            /\ result'.row_count = 0
            /\ staging' = staging
            /\ pc' = "merge"
       /\ (df # {} /\ "load_to_staging" \notin errored') =>
            /\ result'.row_count = Cardinality(df)
            /\ staging'[Cur] = df
            /\ \A t \in TableNames \ {Cur} : staging'[t] = staging[t]
            /\ pc' = "merge"
       /\ "load_to_staging" \in errored' =>
            /\ result'.row_count = 0
            /\ result'.status = "FAILED"
            /\ pc' = "update_metadata"]_vars

\* C20 witness: a batch of two rows was loaded over the row an earlier
\* failed run had left in the staging table
C20_Witness ==
  /\ pc = "merge" /\ "load_to_staging" \notin errored
  /\ Cardinality(df) = 2 /\ result.row_count = 2
  /\ staging_before # {} /\ staging_before # df
  /\ staging[Cur] = df

\* ---- update_metadata alone, on the rows of the metadata table ------------
\* the invocations that may overlap, and the update_metadata calls explored
Writers == {1, 2}
MaxLedgerCalls == 2

\* remarks, as sequences of characters: apostrophes, backslashes, letters
Remarks == { <<>>, <<"'">>, <<"\\", "n">>, <<"\\">> }

\* what sync_table hands over: a SUCCESS with the maximum of its batch, or
\* a FAILED without a value
CallOutcomes ==
  { [status |-> "SUCCESS", sync_time |-> Naive(2), row_count |-> 2],
    [status |-> "FAILED", sync_time |-> NoValue, row_count |-> 0] }

\* update_metadata, line 134: remark.replace("'", "\\'")
RECURSIVE remark_escaped(_)
remark_escaped(remark) ==
  IF remark = <<>> THEN <<>>
  ELSE (IF Head(remark) = "'" THEN <<"\\", "'">> ELSE <<Head(remark)>>)
       \o remark_escaped(Tail(remark))

\* the character an escape sequence \c of a quoted string stands for
escape_sequence(c) == IF c = "n" THEN "LF" ELSE c

\* update_metadata, line 175: the value of the quoted string
\* '<text>' in the statement.  A backslash starts an escape sequence; a bare
\* apostrophe, or a backslash before the closing one, leaves no valid string
\* (ok = FALSE: the statement is rejected).
RECURSIVE string_literal(_)
string_literal(text) ==
  IF text = <<>> THEN [ok |-> TRUE, value |-> <<>>]
  ELSE IF Head(text) = "'" THEN [ok |-> FALSE, value |-> <<>>]
  ELSE IF Head(text) = "\\"
       THEN IF Len(text) = 1 THEN [ok |-> FALSE, value |-> <<>>]
            ELSE LET rest == string_literal(SubSeq(text, 3, Len(text)))
                 IN  [ok |-> rest.ok,
                      value |-> <<escape_sequence(text[2])>> \o rest.value]
       ELSE LET rest == string_literal(Tail(text))
            IN  [ok |-> rest.ok, value |-> <<Head(text)>> \o rest.value]

\* update_metadata, line 137: run_time, an aware datetime, is converted to
\* Lagos wall-clock time and stripped of its tzinfo; TIMESTAMP('<string>')
\* then reads the string as UTC
run_time_str(run_time) ==
  IF run_time.aware THEN run_time.t + LagosOffset ELSE run_time.t

\* the rows of table_name t in the metadata table, and how many there are
Entries(B, t) == {r \in BagToSet(B) : r.table_name = t}
EntryCount(B, t) == BagCardinality([r \in Entries(B, t) |-> B[r]])

\* the metadata table as get-by-key sees it
LedgerOf(B) ==
  [t \in TableNames |->
     IF Entries(B, t) = {} THEN NoEntry ELSE CHOOSE r \in Entries(B, t) : TRUE]

\* update_metadata, lines 167-176: the row S of the USING clause
source_row(B, c) ==
  [table_name |-> c.table_name,
   last_run_time |-> run_time_str(c.run_time),
   last_sync_time |-> sync_time_clause(LedgerOf(B), c.table_name, c.sync_time,
                                       c.status),
   status |-> c.status,
   row_count |-> c.row_count,
   column_count |-> c.column_count,
   remark |-> string_literal(remark_escaped(c.remark)).value]

\* the statement is valid: its remark is a string, and the scalar subquery
\* of the COALESCE clause (lines 157-162) finds at most one row
statement_ok(B, c) ==
  /\ string_literal(remark_escaped(c.remark)).ok
  /\ \/ c.sync_time # NoValue /\ c.status = "SUCCESS"
     \/ EntryCount(B, c.table_name) <= 1

\* a statement with the NOT MATCHED branch only
metadata_merge_rows_insert_only(B, c) == B (+) SetToBag({source_row(B, c)})

\* update_metadata, lines 165-199: MERGE M USING S ON M.table_name =
\* S.table_name.  Every matched row is overwritten by S; S is inserted when
\* no row matches.
metadata_merge_rows(B, c) ==
  LET S == source_row(B, c)
      M == Entries(B, c.table_name)
  IN  IF M = {} THEN B (+) SetToBag({S})
      ELSE [r \in BagToSet(B) \ M |-> B[r]]
           (+) [r \in {S} |-> EntryCount(B, c.table_name)]

Begun == Len(lg_obs) + Cardinality({w \in Writers : wr[w] # NoValue})

\* run_sync_pipeline, lines 230-241: invocation w calls update_metadata for
\* table t with the result of its sync_table call
CallUpdateMetadata(w, t, o, remark) ==
  /\ wr[w] = NoValue
  /\ Begun < MaxLedgerCalls
  /\ wr' = [wr EXCEPT ![w] =
              [table_name |-> t, run_time |-> Aware(Begun + 1),
               sync_time |-> o.sync_time, status |-> o.status,
               row_count |-> o.row_count, column_count |-> 0,
               remark |-> remark]]
  /\ UNCHANGED <<lg, lg_obs, mainvars, mergevars, colvars, extvars, inv, typevars, othervars>>

\* update_metadata, lines 199-207: the statement is executed, atomically,
\* and the call returns; an invalid statement or a failed request (ok =
\* FALSE) changes nothing and the call returns the error
ExecuteMerge(w, ok) ==
  /\ wr[w] # NoValue
  /\ LET done == ok /\ statement_ok(lg, wr[w])
     IN  /\ lg' = IF done THEN metadata_merge_rows(lg, wr[w]) ELSE lg
         /\ lg_obs' = Append(lg_obs,
                        [w |-> w, call |-> wr[w], ok |-> done, before |-> lg,
                         during |-> wr[CHOOSE v \in Writers : v # w]])
  /\ wr' = [wr EXCEPT ![w] = NoValue]
  /\ UNCHANGED <<mainvars, mergevars, colvars, extvars, inv, typevars, othervars>>

NextLedger ==
  \/ \E w \in Writers, t \in TableNames, o \in CallOutcomes, remark \in Remarks :
       CallUpdateMetadata(w, t, o, remark)
  \/ \E w \in Writers, ok \in BOOLEAN : ExecuteMerge(w, ok)

SpecLedger == Init /\ [][NextLedger]_vars

LastMerge == lg_obs[Len(lg_obs)]

\* C21: the metadata table holds at most one row per table_name; a table
\* whose row was written once still has a row; and after an update_metadata
\* call that returned no error the row of its table has the last_run_time
\* (the run time of the call, on the Lagos wall clock it is formatted in),
\* status, row_count, column_count and remark of that call
C21_LedgerCardinality ==
  /\ \A t \in TableNames : EntryCount(lg, t) <= 1
  /\ \A i \in DOMAIN lg_obs :
       lg_obs[i].ok => EntryCount(lg, lg_obs[i].call.table_name) >= 1
  /\ (lg_obs # <<>> /\ LastMerge.ok) =>
       \A r \in Entries(lg, LastMerge.call.table_name) :
         /\ r.last_run_time = LastMerge.call.run_time.t + LagosOffset
         /\ r.status = LastMerge.call.status
         /\ r.row_count = LastMerge.call.row_count
         /\ r.column_count = LastMerge.call.column_count
         /\ r.remark = LastMerge.call.remark

\* the last two statements came from calls of different invocations for the
\* same table, the second call was in progress when the first statement was
\* executed, and both calls have returned without error
Overlapped ==
  /\ \A w \in Writers : wr[w] = NoValue
  /\ Len(lg_obs) >= 2
  /\ LET e1 == lg_obs[Len(lg_obs) - 1]
         e2 == LastMerge
     IN  /\ e1.w # e2.w
         /\ e1.during = e2.call
         /\ e1.call.table_name = e2.call.table_name
         /\ e1.ok /\ e2.ok

\* C25: after two overlapping update_metadata calls for the same table, each
\* one atomic MERGE statement, the metadata table has exactly one row for the
\* table, and that row is the row one of the two statements supplied (the
\* fields of the call; for a FAILED call, the last_sync_time it found)
C25_ConcurrentWritersOneEntry ==
  Overlapped =>
    LET e1 == lg_obs[Len(lg_obs) - 1]
        e2 == LastMerge
    IN  /\ EntryCount(lg, e2.call.table_name) = 1
        /\ \A r \in Entries(lg, e2.call.table_name) :
             \/ r = source_row(e1.before, e1.call)
             \/ r = source_row(e2.before, e2.call)

\* C25 witness: a SUCCESS call and a FAILED call overlapped, the FAILED one
\* wrote last
C25_Witness ==
  /\ Overlapped
  /\ lg_obs[Len(lg_obs) - 1].call.status = "SUCCESS"
  /\ LastMerge.call.status = "FAILED"
  /\ LastMerge.call.remark # lg_obs[Len(lg_obs) - 1].call.remark

\* the update_metadata call this invocation made for table t returned an
\* error: the entry of t does not carry the run time of this invocation
LedgerWriteFailed(t) ==
  /\ md_calls[t] > 0
  /\ ledger[t] = NoEntry \/ ledger[t].last_run_time # runs + 1

\* C22: when the update_metadata call of a table returned an error, the
\* entry of the table in the outcome list has the status sync_table
\* returned (SUCCESS unless a stage of the table failed), the loop has gone
\* on to the next configured table, and the list the invocation returns has
\* an entry for every configured table
C22_LedgerWriteFailureIsolated ==
  \A k \in 1..Len(tables) :
    (pc # "idle" /\ LedgerWriteFailed(tables[k])) =>
      /\ k <= Len(sync_results)
      /\ sync_results[k].table = tables[k]
      /\ sync_results[k].status = (IF own_fault[tables[k]] THEN "FAILED" ELSE "SUCCESS")
      /\ k < Len(tables) => idx > k
      /\ pc = "notify" => Len(sync_results) = Len(tables)

\* C22 witness: the ledger write of the first table, synced with success,
\* failed although the metadata table exists; the second table was synced
\* after it and its entry was written
C22_Witness ==
  /\ pc = "notify" /\ metadata_exists
  /\ LedgerWriteFailed(tables[1]) /\ ~LedgerWriteFailed(tables[2])
  /\ sync_results[1].status = "SUCCESS" /\ sync_results[1].row_count > 0
  /\ sync_results[2].status = "SUCCESS" /\ sync_results[2].row_count > 0

\* ---- the MySQLExtractor calls alone --------------------------------------
MaxExtractorCalls == 2

ExtractorFns == {"extract_incremental_data", "get_table_schema"}

\* the rows a source table may hold when it is queried
ExtractorRows ==
  SUBSET { [pk |-> 1, wm |-> 1, val |-> 100], [pk |-> 2, wm |-> 2, val |-> 100] }

\* a return that hands back the message without what was raised
error_return_without_cause(fn, cause) ==
  IF fn = "extract_incremental_data"
  THEN [value |-> {}, err |-> [message |-> <<"MySQL extraction failed">>]]
  ELSE [value |-> NoValue, err |-> [message |-> <<"Failed to fetch MySQL schema">>]]

\* mysql_extractor.py, lines 60-61 and 108-109: the except clauses
error_return(fn, cause) ==
  IF fn = "extract_incremental_data"
  THEN [value |-> {}, err |-> [message |-> <<"MySQL extraction failed", cause>>]]
  ELSE [value |-> NoValue, err |-> [message |-> <<"Failed to fetch MySQL schema", cause>>]]

\* mysql_extractor.py, lines 58 and 106: "return df, None" / "return schema, None"
normal_return(fn, t, rows, since) ==
  IF fn = "extract_incremental_data"
  THEN [value |-> extract_query(rows, since), err |-> NoValue]
  ELSE [value |-> [schema |-> src_schema[t]], err |-> NoValue]

\* sync_orchestrator.py, lines 97-100 and 136-141: the remark of the FAILED
\* result sync_table returns when the call handed back an error
failure_remark(fn, err) ==
  IF fn = "extract_incremental_data"
  THEN <<"MySQL extraction failed">> \o err.message
  ELSE <<"Failed to get MySQL schema">> \o err.message

\* sync_table calls an extractor function
ExtractorCall(fn, t, rows, since) ==
  /\ ex.pc \in {"idle", "handled"}
  /\ ex_calls < MaxExtractorCalls
  /\ ex_calls' = ex_calls + 1
  /\ ex' = [NoCall EXCEPT !.pc = "tunnel", !.fn = fn, !.table = t,
                          !.rows = rows, !.since = since]
  /\ ex_result' = NoValue
  /\ UNCHANGED <<mainvars, mergevars, colvars, ledgervars, inv, typevars, othervars>>

\* lines 35-40 / 75-80: "with SSHTunnelForwarder(...) as tunnel"; a tunnel
\* that cannot be started raises out of the with statement
EnterTunnel(ok) ==
  /\ ex.pc = "tunnel"
  /\ ex' = IF ok THEN [ex EXCEPT !.tunnel = "open", !.pc = "connect"]
           ELSE [ex EXCEPT !.cause = "transport", !.pc = "except"]
  /\ UNCHANGED <<ex_calls, ex_result, mainvars, mergevars, colvars, ledgervars, inv, typevars, othervars>>

\* lines 41-48 / 81-88: pymysql.connect; when it raises, the with statement
\* stops the tunnel on the way to the except clause
Connect(ok) ==
  /\ ex.pc = "connect"
  /\ ex' = IF ok THEN [ex EXCEPT !.connection = "open", !.pc = "query"]
           ELSE [ex EXCEPT !.cause = "authentication", !.tunnel = "closed",
                           !.pc = "except"]
  /\ UNCHANGED <<ex_calls, ex_result, mainvars, mergevars, colvars, ledgervars, inv, typevars, othervars>>

\* lines 50-54 / 90-102: the cursor block; when the query raises, the cursor
\* is closed and the tunnel is stopped by their with statements,
\* connection.close() of line 56 / 104 is not reached
ExecuteQuery(ok) ==
  /\ ex.pc = "query"
  /\ ex' = IF ok THEN [ex EXCEPT !.pc = "close"]
           ELSE [ex EXCEPT !.cause = "query", !.tunnel = "closed", !.pc = "except"]
  /\ UNCHANGED <<ex_calls, ex_result, mainvars, mergevars, colvars, ledgervars, inv, typevars, othervars>>

\* lines 56-58 / 104-106: connection.close(), the with statement stops the
\* tunnel, the function returns
CloseAndReturn ==
  /\ ex.pc = "close"
  /\ ex' = [ex EXCEPT !.connection = "closed", !.tunnel = "closed",
                      !.ret = normal_return(ex.fn, ex.table, ex.rows, ex.since),
                      !.pc = "returned"]
  /\ UNCHANGED <<ex_calls, ex_result, mainvars, mergevars, colvars, ledgervars, inv, typevars, othervars>>

\* lines 60-61 / 108-109: the except clause returns.  A connection that is
\* still open is closed by nothing the function calls: whether it is closed
\* by the time the function has returned is left to the finalizer of the
\* object (left = "closed") or not (left = "open")
ExceptReturn(left) ==
  /\ ex.pc = "except"
  /\ left = ex.connection \/ (ex.connection = "open" /\ left = "closed")
  /\ ex' = [ex EXCEPT !.connection = left,
                      !.ret = error_return(ex.fn, ex.cause),
                      !.pc = "returned"]
  /\ UNCHANGED <<ex_calls, ex_result, mainvars, mergevars, colvars, ledgervars, inv, typevars, othervars>>

\* sync_orchestrator.py, lines 97-100 and 136-141: "if err: result['remark']
\* = ...; return result" with the status FAILED the result starts with
HandleReturn ==
  /\ ex.pc = "returned"
  /\ ex_result' = IF ex.ret.err # NoValue
                  THEN [status |-> "FAILED",
                        remark |-> failure_remark(ex.fn, ex.ret.err)]
                  ELSE [status |-> "running", remark |-> <<>>]
  /\ ex' = [ex EXCEPT !.pc = "handled"]
  /\ UNCHANGED <<ex_calls, mainvars, mergevars, colvars, ledgervars, inv, typevars, othervars>>

NextExtractor ==
  \/ \E fn \in ExtractorFns, t \in TableNames, rows \in ExtractorRows,
        since \in {Naive(EpochT), Naive(1)} : ExtractorCall(fn, t, rows, since)
  \/ \E ok \in BOOLEAN : EnterTunnel(ok)
  \/ \E ok \in BOOLEAN : Connect(ok)
  \/ \E ok \in BOOLEAN : ExecuteQuery(ok)
  \/ CloseAndReturn
  \/ \E left \in {"none", "open", "closed"} : ExceptReturn(left)
  \/ HandleReturn

SpecExtractor == Init /\ [][NextExtractor]_vars

Elements(q) == {q[i] : i \in DOMAIN q}

\* C23: a call in which the tunnel, the connection or the query failed
\* returns the empty batch (extract_incremental_data) or None
\* (get_table_schema) with an error message, and sync_table turns it into a
\* FAILED result whose remark names what failed
C23_ExtractorErrorsReturned ==
  /\ (ex.pc \in {"returned", "handled"} /\ ex.cause # "none") =>
       /\ ex.ret.err # NoValue
       /\ ex.fn = "extract_incremental_data" => ex.ret.value = {}
       /\ ex.fn = "get_table_schema" => ex.ret.value = NoValue
  /\ (ex.pc = "handled" /\ ex.cause # "none") =>
       /\ ex_result.status = "FAILED"
       /\ ex.cause \in Elements(ex_result.remark)
  /\ (ex.pc = "handled" /\ ex.cause = "none") => ex_result.status = "running"

\* C23 witness: the query of an extraction failed on a table with rows
C23_Witness ==
  /\ ex.pc = "handled" /\ ex.fn = "extract_incremental_data"
  /\ ex.cause = "query" /\ ex.rows # {}
  /\ ex_result.status = "FAILED"

\* C26: when an extractor call has returned, on whichever path, the SSH
\* tunnel and the database connection it opened are no longer open
C26_ResourcesReleased ==
  ex.pc \in {"returned", "handled"} =>
    /\ ex.tunnel # "open"
    /\ ex.connection # "open"

\* ---- two invocations of the pipeline on the same table -------------------
Invocations == {1, 2}
OverlapTable == "orders"

\* what an invocation neither reads as its own nor writes here
restvars == <<metadata_exists, ledger_snap, last_success_wm, lost_write, pc, result,
              own_fault, stages, errored, faults, loopvars, callvars>>

\* the state one invocation on the still empty source table leaves behind:
\* target, staging and metadata table exist, the ledger row is SUCCESS with
\* the epoch; two more invocations have both been triggered
InitOverlap ==
  /\ tables = <<OverlapTable>>
  /\ clock = 0
  /\ src = [t \in TableNames |-> {}]
  /\ auto_increment = [t \in TableNames |-> 1]
  /\ src_schema = [t \in TableNames |-> BaseColumns]
  /\ dest_exists = [t \in TableNames |-> t = OverlapTable]
  /\ dest = [t \in TableNames |-> EmptyBag]
  /\ dest_schema = [t \in TableNames |->
       IF t = OverlapTable THEN create_bigquery_schema_from_mysql(BaseColumns)
       ELSE <<>>]
  /\ staging_exists = [t \in TableNames |-> t = OverlapTable]
  /\ staging = [t \in TableNames |-> {}]
  /\ staging_schema = dest_schema
  /\ metadata_exists = TRUE
  /\ ledger = metadata_merge([t \in TableNames |-> NoEntry], OverlapTable, 1,
                             Naive(EpochT), "SUCCESS", 0, 0,
                             <<"Table created from MySQL schema",
                               "No new or updated rows">>)
  /\ ledger_snap = [t \in TableNames |-> {}]
  /\ last_success_wm = [t \in TableNames |->
       IF t = OverlapTable THEN [t |-> EpochT] ELSE NoValue]
  /\ lost_write = [t \in TableNames |-> NoValue]
  /\ pc = "idle"
  /\ idx = 1
  /\ result = NoValue
  /\ last_synced = Naive(EpochT)
  /\ df = {}
  /\ sync_results = <<>>
  /\ runs = 1
  /\ stages = <<>>
  /\ errored = {}
  /\ wm_before = EpochT
  /\ entry_before = NoEntry
  /\ dest_before = EmptyBag
  /\ staging_before = {}
  /\ df_columns = {}
  /\ mysql_schema = <<>>
  /\ schema = <<>>
  /\ merged = NoValue
  /\ load_columns = NoValue
  /\ src_at_extract = {}
  /\ own_fault = [t \in TableNames |-> FALSE]
  /\ md_calls = [t \in TableNames |-> 0]
  /\ md_last = NoValue
  /\ read_failed = FALSE
  /\ faults = 0
  /\ MergeIdle
  /\ ColumnsIdle
  /\ LedgerIdle
  /\ ExtractorIdle
  /\ TypesIdle
  /\ OthersIdle
  /\ inv = [i \in Invocations |-> [NotInvoked EXCEPT !.pc = "get_last_sync_time"]]

\* sync_table, lines 127-131
InvGetLastSyncTime(i) ==
  /\ inv[i].pc = "get_last_sync_time"
  /\ inv' = [inv EXCEPT ![i].last_synced = get_last_sync_time(ledger, OverlapTable, TRUE),
                        ![i].pc = "extract"]
  /\ UNCHANGED <<sourcevars, bqvars, ledger, restvars, mergevars, colvars,
                 ledgervars, extvars, typevars, othervars>>

\* sync_table, lines 136-146
InvExtract(i) ==
  /\ inv[i].pc = "extract"
  /\ inv' = [inv EXCEPT ![i].df = extract_query(src[OverlapTable], inv[i].last_synced),
                        ![i].pc = "load_to_staging"]
  /\ UNCHANGED <<sourcevars, bqvars, ledger, restvars, mergevars, colvars,
                 ledgervars, extvars, typevars, othervars>>

\* sync_table, lines 163-168, with load_to_staging: an empty batch is not
\* loaded, any other replaces the rows of the staging table
InvLoadToStaging(i) ==
  /\ inv[i].pc = "load_to_staging"
  /\ staging' = IF inv[i].df = {} THEN staging
                ELSE [staging EXCEPT ![OverlapTable] = load_job(@, inv[i].df)]
  /\ inv' = [inv EXCEPT ![i].pc = "merge"]
  /\ UNCHANGED <<sourcevars, dest_exists, dest, dest_schema, staging_exists,
                 staging_schema, ledger, restvars, mergevars, colvars,
                 ledgervars, extvars, typevars, othervars>>

\* merge_staging_to_target, lines 103-137: with an empty batch it returns at
\* once; otherwise the MERGE statement reads the staging table
InvMerge(i) ==
  /\ inv[i].pc = "merge"
  /\ IF inv[i].df = {}
     THEN /\ inv' = [inv EXCEPT ![i].pc = "update_metadata"]
          /\ UNCHANGED dest
     ELSE /\ inv' = [inv EXCEPT ![i].pc = "truncate"]
          /\ dest' = [dest EXCEPT ![OverlapTable] = merge_sql(@, staging[OverlapTable])]
  /\ UNCHANGED <<sourcevars, dest_exists, dest_schema, staging_exists, staging,
                 staging_schema, ledger, restvars, mergevars, colvars,
                 ledgervars, extvars, typevars, othervars>>

\* merge_staging_to_target, lines 139-143: TRUNCATE TABLE of the staging table
InvTruncate(i) ==
  /\ inv[i].pc = "truncate"
  /\ staging' = [staging EXCEPT ![OverlapTable] = staging_after("ok", @)]
  /\ inv' = [inv EXCEPT ![i].pc = "update_metadata"]
  /\ UNCHANGED <<sourcevars, dest_exists, dest, dest_schema, staging_exists,
                 staging_schema, ledger, restvars, mergevars, colvars,
                 ledgervars, extvars, typevars, othervars>>

\* sync_table, lines 182-192, and run_sync_pipeline, lines 221-241: the run
\* ended SUCCESS and its last_synced_value is written to the ledger
InvUpdateMetadata(i) ==
  /\ inv[i].pc = "update_metadata"
  /\ ledger' = metadata_merge(ledger, OverlapTable, runs + i,
                              last_synced_value(inv[i].df, inv[i].last_synced),
                              "SUCCESS", load_row_count(inv[i].df), 0, <<>>)
  /\ inv' = [inv EXCEPT ![i].pc = "done"]
  /\ UNCHANGED <<sourcevars, bqvars, restvars, mergevars, colvars, ledgervars,
                 extvars, typevars, othervars>>

NextOverlap ==
  \/ SourceInsert(OverlapTable)
  \/ \E i \in Invocations :
       \/ InvGetLastSyncTime(i)
       \/ InvExtract(i)
       \/ InvLoadToStaging(i)
       \/ InvMerge(i)
       \/ InvTruncate(i)
       \/ InvUpdateMetadata(i)

SpecOverlap == InitOverlap /\ [][NextOverlap]_vars

\* C24: when both overlapping invocations have ended, every source row
\* that one of them extracted and whose watermark is at most the
\* last_sync_time of the ledger has a row with the same key in the target
\* table
C24_OverlapLosesNoRow ==
  (\A i \in Invocations : inv[i].pc = "done") =>
    \A r \in src[OverlapTable] :
      (r.wm <= LedgerWm(ledger, OverlapTable) /\ \E i \in Invocations : r \in inv[i].df) =>
        \E d \in BagToSet(dest[OverlapTable]) : d.pk = r.pk

\* the place of a component call in the order the claim gives: schema check
\* (1-3), watermark read (4), extract (5), translate (6), stage load (7-9),
\* merge (10)
StageRank(stage) ==
  CASE stage = "get_table_schema" -> 1
    [] stage \in {"get_table", "create_table"} -> 2
    [] stage = "add_missing_columns" -> 3
    [] stage = "get_last_sync_time" -> 4
    [] stage = "extract" -> 5
    [] stage = "prepare" -> 6
    [] stage = "ensure_staging_table" -> 7
    [] stage = "add_missing_columns_staging" -> 8
    [] stage = "load_to_staging" -> 9
    [] stage = "merge" -> 10

\* C27: while an invocation runs, the tables before the current one, in
\* configuration order, each have their entry in the result list and have
\* had their one update_metadata call, the current and the later tables
\* have had none (no stage of a table starts before the ledger update of
\* the table before it is over); and the component calls of a table were
\* made in the order schema check, watermark read, extract, translate,
\* stage load, merge
C27_StagesInOrder ==
  /\ pc # "idle" =>
       /\ Len(sync_results) = (IF pc = "notify" THEN Len(tables) ELSE idx - 1)
       /\ \A k \in 1..Len(tables) :
            IF k <= Len(sync_results)
            THEN sync_results[k].table = tables[k] /\ md_calls[tables[k]] = 1
            ELSE md_calls[tables[k]] = 0
  /\ \A i, j \in DOMAIN stages :
       i < j => StageRank(stages[i]) < StageRank(stages[j])

\* C27 witness: the second of two tables has gone through every stage after
\* the first one did and had its ledger entry written
C27_Witness ==
  /\ pc = "update_metadata" /\ idx = 2 /\ Len(stages) = 10
  /\ result.status = "SUCCESS" /\ result.row_count > 0
  /\ sync_results[1].status = "SUCCESS" /\ sync_results[1].row_count > 0
  /\ ledger[tables[1]] # NoEntry /\ ledger[tables[2]] = NoEntry

\* ---- mysql_type_to_bigquery alone ----------------------------------------
\* type names: those of TYPE_MAPPING, some in upper case, and some the
\* table does not have
BaseWords ==
  DOMAIN TYPE_MAPPING \cup {"INT", "VARCHAR", "DATETIME"}
    \cup {"geometry", "bit", "point"}

\* a type name, with or without a size suffix, with or without unsigned
TypeStrings ==
  { <<b>> \o sfx \o uns :
      b \in BaseWords,
      sfx \in {<<>>} \cup {<<x>> : x \in SizeSuffixes},
      uns \in {<<>>, <<"unsigned">>, <<"UNSIGNED">>} }

InitTypes ==
  /\ tables = <<"orders">>
  /\ clock = 0
  /\ src = [t \in TableNames |-> {}]
  /\ auto_increment = [t \in TableNames |-> 1]
  /\ src_schema = [t \in TableNames |-> BaseColumns]
  /\ Fresh
  /\ MergeIdle
  /\ ColumnsIdle
  /\ LedgerIdle /\ ExtractorIdle /\ OverlapIdle /\ OthersIdle
  /\ ty_in \in TypeStrings
  /\ ty_out = "" /\ ty_again = ""
  /\ ty_pc = "start"

\* the type string is translated ...
TranslateOnce ==
  /\ ty_pc = "start"
  /\ ty_out' = mysql_type_to_bigquery(ty_in)
  /\ ty_pc' = "once"
  /\ UNCHANGED <<mainvars, mergevars, colvars, ledgervars, extvars, inv, ty_in,
                 ty_again, othervars>>

\* ... and translated again
TranslateAgain ==
  /\ ty_pc = "once"
  /\ ty_again' = mysql_type_to_bigquery(ty_in)
  /\ ty_pc' = "twice"
  /\ UNCHANGED <<mainvars, mergevars, colvars, ledgervars, extvars, inv, ty_in,
                 ty_out, othervars>>

NextTypes == TranslateOnce \/ TranslateAgain

SpecTypes == InitTypes /\ [][NextTypes]_vars

\* the destination types, and the families the contract lists
BigQueryTypes == {"INT64", "FLOAT64", "NUMERIC", "STRING", "DATE", "TIMESTAMP",
                  "TIME", "BYTES", "BOOL", "JSON"}

ContractType(b) ==
  CASE b \in {"tinyint", "smallint", "mediumint", "int", "bigint"} -> "INT64"
    [] b \in {"float", "double"} -> "FLOAT64"
    [] b = "decimal" -> "NUMERIC"
    [] b \in {"char", "varchar", "text", "tinytext", "mediumtext", "longtext"} -> "STRING"
    [] b = "date" -> "DATE"
    [] b \in {"datetime", "timestamp"} -> "TIMESTAMP"
    [] b \in {"binary", "varbinary", "blob", "tinyblob", "mediumblob", "longblob"} -> "BYTES"
    [] b \in {"bool", "boolean"} -> "BOOL"
    [] b \in {"enum", "set"} -> "STRING"
    [] b = "json" -> "JSON"
    [] OTHER -> "none"

\* C28: for a type name with or without a size suffix and with or without
\* unsigned, in either case of letters, mysql_type_to_bigquery returns a
\* destination type: the one the contract lists for the family of the name,
\* STRING for a name TYPE_MAPPING does not have; a second call returns the
\* same
C28_TypeTranslationTotal ==
  ty_pc \in {"once", "twice"} =>
    LET b == lower(ty_in[1])
    IN  /\ ty_out \in BigQueryTypes
        /\ ContractType(b) # "none" => ty_out = ContractType(b)
        /\ b \notin DOMAIN TYPE_MAPPING => ty_out = "STRING"
        /\ ty_pc = "twice" => ty_again = ty_out

\* C28 witness: INT(11) UNSIGNED was translated to INT64, twice
C28_Witness ==
  /\ ty_pc = "twice"
  /\ ty_in = <<"INT", "(11)", "UNSIGNED">>
  /\ ty_out = "INT64"

\* C29: every step of the creation stage.  When the target table is absent
\* the step either creates it, empty, with one NULLABLE field per source
\* column, in the source order, of the translated type, or fails and leaves
\* it absent; when the table is present, whether get_table found it or
\* raised for another reason, the step changes neither its schema nor its
\* rows
C29_CreationFrame ==
  [][pc = "get_table" =>
       IF dest_exists[Cur]
       THEN /\ dest_exists'[Cur]
            /\ dest_schema'[Cur] = dest_schema[Cur]
            /\ dest'[Cur] = dest[Cur]
       ELSE \/ /\ ~dest_exists'[Cur]
               /\ pc' = "update_metadata" /\ result'.status = "FAILED"
            \/ /\ dest_exists'[Cur]
               /\ dest'[Cur] = EmptyBag
               /\ Len(dest_schema'[Cur]) = Len(mysql_schema)
               /\ \A i \in DOMAIN mysql_schema :
                    /\ dest_schema'[Cur][i].name = mysql_schema[i].name
                    /\ dest_schema'[Cur][i].type =
                         mysql_type_to_bigquery(mysql_schema[i].type)
                    /\ dest_schema'[Cur][i].mode = "NULLABLE"]_vars

\* C29 witness: get_table raised although the target table exists with rows
\* and with fewer columns than the source; the creation stage is over
C29_Witness ==
  /\ pc = "add_missing_columns"
  /\ stages[Len(stages)] = "create_table"
  /\ dest[Cur] # EmptyBag
  /\ Len(dest_schema[Cur]) < Len(mysql_schema)

\* C30: in every run, the reconciliation step of the target table leaves in
\* new_columns exactly the names its schema gained in that step, each once;
\* the steps before it leave new_columns empty, the steps after it change
\* neither new_columns nor the schema of the target table; and a run that
\* added a column and whose load and merge returned no error ends SUCCESS
C30_NewColumnsReported ==
  /\ [][/\ pc = "add_missing_columns" =>
             /\ Elements(result'.new_columns)
                  = Names(dest_schema'[Cur]) \ Names(dest_schema[Cur])
             /\ Len(result'.new_columns) = Cardinality(Elements(result'.new_columns))
        /\ pc \in {"get_table_schema", "get_table"} => result'.new_columns = <<>>
        /\ pc \in {"get_last_sync_time", "extract", "prepare", "ensure_staging_table",
                   "add_missing_columns_staging", "load_to_staging", "merge",
                   "finish"} =>
             /\ result'.new_columns = result.new_columns
             /\ dest_schema'[Cur] = dest_schema[Cur]]_vars
  /\ []((/\ pc = "update_metadata"
         /\ result.new_columns # <<>>
         /\ {"load_to_staging", "merge"} \subseteq CalledStages
         /\ errored \cap {"load_to_staging", "merge"} = {})
        => result.status = "SUCCESS")

\* C30 witness: the source gained referral_code, the run added it to the
\* target table, loaded and merged rows and ended SUCCESS
C30_Witness ==
  /\ pc = "update_metadata"
  /\ result.new_columns = <<"referral_code">>
  /\ result.status = "SUCCESS" /\ result.row_count > 0
  /\ errored = {}

\* ---- recovery after a lost ledger write ----------------------------------
\* the run before this one of the table merged a batch and ended SUCCESS,
\* its ledger write wrote nothing, neither its ledger read nor the one of
\* this run raised, and the source rows are those that run read
AfterLostWrite ==
  /\ lost_write[Cur] # NoValue
  /\ ~lost_write[Cur].read_failed /\ ~read_failed
  /\ lost_write[Cur].src = src_at_extract

\* C31: when the run before merged a batch and lost its ledger write (the
\* ledger entry stayed as it was) and the source did not change, the run
\* whose merge has just returned without error extracted the same rows, and
\* the target table holds what it held after the merge of the run before:
\* the same rows, each the same number of times
C31_RecoveryAfterLostLedgerWrite ==
  (pc = "finish" /\ AfterLostWrite) =>
    /\ ledger[Cur] = lost_write[Cur].entry
    /\ df = lost_write[Cur].df
    /\ dest[Cur] = lost_write[Cur].dest

\* C31 witness: the run before had a stored watermark to start from, it
\* inserted one row and updated another, and the MERGE statement of this run
\* has read the same two rows again
C31_Witness ==
  /\ pc = "finish" /\ AfterLostWrite
  /\ merged # NoValue /\ merged.rows = lost_write[Cur].df
  /\ Cardinality(df) = 2
  /\ entry_before # NoEntry /\ entry_before.status = "SUCCESS"
  /\ \E d \in DOMAIN dest_before, r \in df : d.pk = r.pk
  /\ dest[Cur] = SetToBag(df)

\* ---- the recorded column count -------------------------------------------
\* C32: once the run of a table is over and its target table exists, the
\* column_count of its entry in the returned list is the number of columns
\* of the target table, and so is the column_count of its ledger entry when
\* update_metadata wrote it
C32_ColumnCountRecorded ==
  (RunOver /\ dest_exists[Last]) =>
    /\ sync_results[Len(sync_results)].column_count = Len(dest_schema[Last])
    /\ md_last.written => ledger[Last].column_count = Len(dest_schema[Last])

\* ---- a failed run and the target table -----------------------------------
\* C33: when sync_table returns FAILED, the target table holds the rows it
\* held when the run started: no row was inserted or updated by that run,
\* also when the error came from merge_staging_to_target
C33_FailedRunKeepsDestination ==
  (pc = "update_metadata" /\ result.status = "FAILED" /\ dest_exists[Cur]) =>
    dest[Cur] = dest_before

\* ---- the table references of a configuration ------------------------------
\* A BigQuery table is named by its dataset and its table id.  The names a
\* configuration gives its tables (bq_table, here also the mysql_table)
RefTableNames == {"orders", "orders_staging", "users"}
Datasets == {"prod", "stage"}
Refs == [dataset : Datasets,
         name : RefTableNames \cup {n \o "_staging" : n \in RefTableNames}]
NoTable == [exists |-> FALSE, rows |-> EmptyBag, schema |-> <<>>]

\* the bigquery section of tables.yml: dataset_id, and staging_dataset_id
\* when the file gives one (a sequence of no or one element)
Configurations ==
  {c \in [dataset_id : {"prod"}, staging : {<<>>, <<"stage">>},
          tables : [1..2 -> RefTableNames]] : c.tables[1] # c.tables[2]}

\* ConfigLoader.bigquery_config, lines 33-39: without a staging_dataset_id
\* the dataset of the target tables is used
staging_dataset_id(cfg) ==
  IF cfg.staging = <<>> THEN cfg.dataset_id ELSE cfg.staging[1]

\* sync_table, line 103
target_ref(cfg, bq_table_id) == [dataset |-> cfg.dataset_id, name |-> bq_table_id]

\* sync_table, line 149
staging_ref(cfg, bq_table_id) ==
  [dataset |-> staging_dataset_id(cfg), name |-> bq_table_id \o "_staging"]

\* the rows of the MySQL table of a name: row k was written at hour k, and
\* the amounts tell the tables apart
SourceTag(n) == CASE n = "orders" -> 100 [] n = "users" -> 200 [] OTHER -> 300
SourceRows(n, count) == {[pk |-> k, wm |-> k, val |-> SourceTag(n) + k] : k \in 1..count}

RefCur == rf.cfg.tables[rf.idx]
RefTarget == target_ref(rf.cfg, RefCur)
RefStaging == staging_ref(rf.cfg, RefCur)
refrest == <<mainvars, mergevars, colvars, ledgervars, extvars, inv, typevars, v2>>

\* a project without tables and a configuration of two tables
InitRefs ==
  /\ tables = <<"orders">>
  /\ clock = 0
  /\ src = [t \in TableNames |-> {}]
  /\ auto_increment = [t \in TableNames |-> 1]
  /\ src_schema = [t \in TableNames |-> BaseColumns]
  /\ Fresh
  /\ MergeIdle
  /\ ColumnsIdle
  /\ LedgerIdle /\ ExtractorIdle /\ OverlapIdle /\ TypesIdle /\ V2Idle
  /\ \E c \in Configurations, count \in [1..2 -> 1..MaxPK] :
       rf = [cfg |-> c,
             source |-> [n \in RefTableNames |->
                           IF n = c.tables[1] THEN SourceRows(n, count[1])
                           ELSE IF n = c.tables[2] THEN SourceRows(n, count[2])
                           ELSE {}],
             store |-> [r \in Refs |-> NoTable],
             meta |-> [n \in RefTableNames |-> NoEntry],
             pc |-> "idle", idx |-> 1, runs |-> 0,
             last_synced |-> Naive(EpochT), df |-> {}]

\* run_sync_pipeline, lines 206-217
RefStartPipeline ==
  /\ rf.pc = "idle" /\ rf.runs < MaxRuns
  /\ rf' = [rf EXCEPT !.pc = "get_table", !.idx = 1]
  /\ UNCHANGED refrest

\* sync_table, lines 102-114: the target table is created when get_table
\* does not find it
RefEnsureTargetTable ==
  /\ rf.pc = "get_table"
  /\ rf' = [rf EXCEPT
              !.store[RefTarget] =
                 IF @.exists THEN @
                 ELSE [exists |-> TRUE, rows |-> EmptyBag,
                       schema |-> create_bigquery_schema_from_mysql(BaseColumns)],
              !.pc = "get_last_sync_time"]
  /\ UNCHANGED refrest

\* sync_table, lines 126-141
RefExtract ==
  /\ rf.pc = "get_last_sync_time"
  /\ LET since == get_last_sync_time(rf.meta, RefCur, TRUE)
     IN rf' = [rf EXCEPT !.last_synced = since,
                         !.df = extract_query(rf.source[RefCur], since),
                         !.pc = "ensure_staging_table"]
  /\ UNCHANGED refrest

\* ensure_staging_table, lines 30-42: the table at the staging reference is
\* created with the schema of the target table when get_table does not find
\* one there
RefEnsureStagingTable ==
  /\ rf.pc = "ensure_staging_table"
  /\ rf' = [rf EXCEPT
              !.store[RefStaging] =
                 IF @.exists THEN @
                 ELSE [exists |-> TRUE, rows |-> EmptyBag,
                       schema |-> rf.store[RefTarget].schema],
              !.pc = "load_to_staging"]
  /\ UNCHANGED refrest

\* load_to_staging, lines 64-79: the load job replaces rows and schema of the
\* table at the staging reference
RefLoadToStaging ==
  /\ rf.pc = "load_to_staging"
  /\ rf' = IF rf.df = {} THEN [rf EXCEPT !.pc = "update_metadata"]
           ELSE [rf EXCEPT
                   !.store[RefStaging] =
                      [exists |-> TRUE,
                       rows |-> SetToBag(load_job(BagToSet(@.rows), rf.df)),
                       schema |-> rf.store[RefTarget].schema],
                   !.pc = "merge"]
  /\ UNCHANGED refrest

\* merge_staging_to_target, lines 115-139: MERGE target USING staging
RefMerge ==
  /\ rf.pc = "merge"
  /\ rf' = [rf EXCEPT
              !.store[RefTarget].rows =
                 merge_sql(@, BagToSet(rf.store[RefStaging].rows)),
              !.pc = "truncate"]
  /\ UNCHANGED refrest

\* merge_staging_to_target, lines 141-142: TRUNCATE TABLE staging
RefTruncate ==
  /\ rf.pc = "truncate"
  /\ rf' = [rf EXCEPT
              !.store[RefStaging].rows = SetToBag(staging_after("ok", BagToSet(@))),
              !.pc = "update_metadata"]
  /\ UNCHANGED refrest

\* sync_table, lines 182-192, and run_sync_pipeline, lines 217-241: the run
\* ended SUCCESS, its ledger row is written under the bq_table name, and the
\* loop goes to the next table
RefUpdateMetadata ==
  /\ rf.pc = "update_metadata"
  /\ rf' = [rf EXCEPT
              !.meta = metadata_merge(@, RefCur, rf.runs + 1,
                                      last_synced_value(rf.df, rf.last_synced),
                                      "SUCCESS", load_row_count(rf.df), 0, <<>>),
              !.idx = IF rf.idx < Len(rf.cfg.tables) THEN rf.idx + 1 ELSE 1,
              !.pc = IF rf.idx < Len(rf.cfg.tables) THEN "get_table" ELSE "idle",
              !.runs = IF rf.idx < Len(rf.cfg.tables) THEN @ ELSE @ + 1,
              !.df = {}, !.last_synced = Naive(EpochT)]
  /\ UNCHANGED refrest

NextRefs ==
  \/ RefStartPipeline
  \/ RefEnsureTargetTable
  \/ RefExtract
  \/ RefEnsureStagingTable
  \/ RefLoadToStaging
  \/ RefMerge
  \/ RefTruncate
  \/ RefUpdateMetadata

SpecRefs == InitRefs /\ [][NextRefs]_vars

\* the tables and the ledger row of the configured table number i
TablesOf(state, i) ==
  [target |-> state.store[target_ref(state.cfg, state.cfg.tables[i])],
   staging |-> state.store[staging_ref(state.cfg, state.cfg.tables[i])],
   entry |-> state.meta[state.cfg.tables[i]]]

\* C34: while sync_table and update_metadata run for one of two configured
\* tables with distinct destination names, no step changes the rows or the
\* schema of the other table's target table, its staging table or its
\* ledger entry
C34_CrossTableFrame ==
  [][\A i \in 1..2 :
       (rf.pc # "idle" /\ i # rf.idx) => TablesOf(rf', i) = TablesOf(rf, i)]_vars

\* ---- the keys of the target table ----------------------------------------
\* C35: the source tables having unique primary keys, the target table of
\* every configured table holds at most one row per primary key, whatever
\* runs, failed or not, came before
C35_DestinationKeysUnique ==
  \A t \in TableNames, k \in PKs : KeyCount(dest[t], k) <= 1

\* C35 witness: the MERGE statement of a run has read a row that the target
\* table already held when the run started and a newer version of another,
\* after a run that ended FAILED; the target holds one row for each key
C35_Witness ==
  /\ pc = "finish" /\ merged # NoValue
  /\ entry_before # NoEntry /\ entry_before.status = "FAILED"
  /\ \E r \in merged.rows : r \in DOMAIN dest_before
  /\ \E r \in merged.rows, d \in DOMAIN dest_before : r.pk = d.pk /\ r.wm > d.wm
  /\ \A k \in PKs : KeyCount(dest[Cur], k) = 1

\* ---- last writer wins ----------------------------------------------------
\* the MERGE statement took target Before to After: every key with one row
\* in Before has one row in After, whose watermark is not smaller and whose
\* value differs only when its watermark is greater
LastWriterWins(Before, After) ==
  \A d \in DOMAIN Before :
    KeyCount(Before, d.pk) = 1 =>
      /\ KeyCount(After, d.pk) = 1
      /\ \A e \in DOMAIN After :
           e.pk = d.pk => /\ e.wm >= d.wm
                          /\ e.val # d.val => e.wm > d.wm

\* C36: for every target table and every staging batch, older, equal and
\* newer staging rows included, each MERGE statement of a sequence leaves
\* the watermark of the target row of a key at least as large as it was,
\* and changes its non-key value only when the watermark grows
C36_LastWriterWins ==
  /\ Merged => LastWriterWins(mD, mOnce)
  /\ mpc = "twice" => LastWriterWins(mOnce, mTwice)

\* C36 witness: the batch held an older version of the row of one key, which
\* stayed, and a newer version of the row of the other, which was taken
C36_Witness ==
  /\ mpc = "twice"
  /\ \E d \in DOMAIN mD, s \in mS :
       /\ d.pk = s.pk /\ s.wm < d.wm /\ s.val # d.val
       /\ d \in DOMAIN mOnce /\ KeyCount(mOnce, d.pk) = 1
  /\ \E d \in DOMAIN mD, s \in mS :
       /\ d.pk = s.pk /\ s.wm > d.wm /\ s.val # d.val
       /\ s \in DOMAIN mOnce /\ KeyCount(mOnce, d.pk) = 1

\* ---- version 2: the handler of main.py ------------------------------------
\* One configured table whose target table exists (version 2 never creates
\* it) and whose columns do not change, so that handle_schema_changes adds
\* nothing.  v2 holds the MySQL rows, the target and the staging table, the
\* metadata row of the table, the locals of handler and, as history, the
\* last_synced stored when the run started and what happened to its load and
\* its merge
v2rest == <<mainvars, mergevars, colvars, ledgervars, extvars, inv, typevars, rf>>

V2Locals == [last_synced |-> Naive(EpochT), df |-> {}, row_count |-> 0,
             merge_status |-> "none", wm_before |-> EpochT,
             load_failed |-> FALSE, merge_failed |-> FALSE,
             merge_executed |-> FALSE, metadata_written |-> FALSE]

InitV2 ==
  /\ tables = <<"orders">>
  /\ clock = 0
  /\ src = [t \in TableNames |-> {}]
  /\ auto_increment = [t \in TableNames |-> 1]
  /\ src_schema = [t \in TableNames |-> BaseColumns]
  /\ Fresh
  /\ MergeIdle
  /\ ColumnsIdle
  /\ LedgerIdle /\ ExtractorIdle /\ OverlapIdle /\ TypesIdle /\ RefsIdle
  /\ v2 = [pc |-> "idle", runs |-> 0, faults |-> 0, clock |-> 0,
           auto_increment |-> 1, src |-> {}, dest |-> EmptyBag,
           staging_exists |-> FALSE, staging |-> {}, metadata_exists |-> FALSE,
           meta |-> NoEntry, local |-> V2Locals]

\* the external call of a step fails within the budget
V2Faults(ok) == IF ok THEN v2.faults ELSE v2.faults + 1
V2MayFail(ok) == ok \/ v2.faults < MaxFaults

\* the last_synced of the metadata row, the epoch when there is none
V2Stored(meta) == IF meta = NoEntry THEN EpochT ELSE meta.last_synced

\* INSERT into the MySQL table between two invocations
V2SourceInsert ==
  /\ v2.pc = "idle" /\ v2.clock < MaxClock /\ v2.auto_increment <= MaxPK
  /\ v2' = [v2 EXCEPT !.clock = @ + 1,
                      !.src = WriteRow(@, v2.auto_increment, v2.clock + 1),
                      !.auto_increment = @ + 1]
  /\ UNCHANGED v2rest

\* UPDATE of row k of the MySQL table between two invocations
V2SourceUpdate(k) ==
  /\ v2.pc = "idle" /\ v2.clock < MaxClock
  /\ \E r \in v2.src : r.pk = k
  /\ v2' = [v2 EXCEPT !.clock = @ + 1, !.src = WriteRow(@, k, v2.clock + 1)]
  /\ UNCHANGED v2rest

\* handler, lines 321-340, with setup_metadata_table, lines 86-101, which
\* creates the metadata table when get_table does not find it; the call is
\* not guarded: when create_table raises, handler raises
V2Start(ok) ==
  /\ v2.pc = "idle" /\ v2.runs < MaxRuns
  /\ IF v2.metadata_exists THEN ok ELSE V2MayFail(ok)
  /\ v2' = IF ok
           THEN [v2 EXCEPT !.metadata_exists = TRUE,
                           !.local = [V2Locals EXCEPT !.wm_before = V2Stored(v2.meta)],
                           !.pc = "get_last_synced"]
           ELSE [v2 EXCEPT !.faults = @ + 1, !.runs = @ + 1]
  /\ UNCHANGED v2rest

\* get_last_synced, lines 105-112: SELECT last_synced ... WHERE table_name =
\* t, whatever the status of the row; the epoch when there is no row.  The
\* call is not guarded: when the query raises, handler raises
get_last_synced(meta) ==
  IF meta = NoEntry THEN Naive(EpochT) ELSE Aware(meta.last_synced)

V2GetLastSynced(ok) ==
  /\ v2.pc = "get_last_synced" /\ V2MayFail(ok)
  /\ v2' = IF ok
           THEN [v2 EXCEPT !.local.last_synced = get_last_synced(v2.meta),
                           !.pc = "extract"]
           ELSE [v2 EXCEPT !.faults = @ + 1, !.pc = "idle", !.runs = @ + 1]
  /\ UNCHANGED v2rest

\* handler, lines 356-371, with extract_mysql_data, lines 119-141: an error
\* is listed and the run goes on with an empty DataFrame
V2Extract(ok) ==
  /\ v2.pc = "extract" /\ V2MayFail(ok)
  /\ v2' = [v2 EXCEPT !.local.df = IF ok THEN extract_query(v2.src, v2.local.last_synced)
                                   ELSE {},
                      !.faults = V2Faults(ok),
                      !.pc = "ensure_staging_table"]
  /\ UNCHANGED v2rest

\* handler, lines 380-424, with ensure_staging_table, lines 190-200: on an
\* error the loop continues with the next table, the metadata row is not
\* written.  The two handle_schema_changes calls find no new column
V2EnsureStagingTable(ok) ==
  /\ v2.pc = "ensure_staging_table" /\ V2MayFail(ok)
  /\ v2' = IF ok
           THEN [v2 EXCEPT !.staging_exists = TRUE, !.pc = "load_to_staging"]
           ELSE [v2 EXCEPT !.faults = @ + 1, !.pc = "send_error_email"]
  /\ UNCHANGED v2rest

\* handler, lines 429-440, with load_to_staging, lines 247-255: an error is
\* listed, row_count is 0, and the run goes on to the merge
V2LoadToStaging(ok) ==
  /\ v2.pc = "load_to_staging"
  /\ IF v2.local.df = {} THEN ok ELSE V2MayFail(ok)
  /\ v2' = IF v2.local.df = {}
           THEN [v2 EXCEPT !.local.row_count = 0, !.pc = "merge_to_target"]
           ELSE IF ok
           THEN [v2 EXCEPT !.staging = load_job(@, v2.local.df),
                           !.local.row_count = Cardinality(v2.local.df),
                           !.pc = "merge_to_target"]
           ELSE [v2 EXCEPT !.local.row_count = 0,
                           !.local.load_failed = TRUE,
                           !.faults = @ + 1,
                           !.pc = "merge_to_target"]
  /\ UNCHANGED v2rest

\* handler, lines 445-467, with merge_to_target, lines 261-286: nothing is
\* executed for an empty DataFrame; otherwise the MERGE statement reads the
\* staging table as it is and the TRUNCATE follows; either may raise
V2MergeToTarget(outcome) ==
  /\ v2.pc = "merge_to_target"
  /\ IF v2.local.df = {} THEN outcome = "ok" ELSE V2MayFail(outcome = "ok")
  /\ v2' =
       IF v2.local.df = {}
       THEN [v2 EXCEPT !.local.merge_status = "SUCCESS", !.pc = "update_metadata"]
       ELSE CASE outcome = "ok" ->
                   [v2 EXCEPT !.dest = merge_sql(@, v2.staging),
                              !.staging = staging_after(outcome, @),
                              !.local.merge_executed = TRUE,
                              !.local.merge_status = "SUCCESS",
                              !.pc = "update_metadata"]
              [] outcome = "merge_failed" ->
                   [v2 EXCEPT !.local.merge_failed = TRUE,
                              !.local.merge_status = "FAILED",
                              !.faults = @ + 1,
                              !.pc = "update_metadata"]
              [] outcome = "truncate_failed" ->
                   [v2 EXCEPT !.dest = merge_sql(@, v2.staging),
                              !.staging = staging_after(outcome, @),
                              !.local.merge_executed = TRUE,
                              !.local.merge_failed = TRUE,
                              !.local.merge_status = "FAILED",
                              !.faults = @ + 1,
                              !.pc = "update_metadata"]
  /\ UNCHANGED v2rest

\* handler, line 483
last_sync_val(batch, since) ==
  IF batch # {} THEN Naive(SetMax({r.wm : r \in batch})) ELSE since

\* update_metadata, line 299: TIMESTAMP('{last_synced}').  str() of an aware
\* datetime carries its UTC offset and str() of a naive one is read as UTC:
\* the stored instant is the reading
timestamp_of(value) == value.t

\* update_metadata, lines 292-316: the MERGE into the metadata table sets
\* last_synced, status and row_count of the row, whatever the status
update_metadata_v2(meta, last_synced_arg, row_count, status) ==
  [last_synced |-> timestamp_of(last_synced_arg),
   status |-> status, row_count |-> row_count]

\* handler, lines 472-523
V2UpdateMetadata(ok) ==
  /\ v2.pc = "update_metadata" /\ V2MayFail(ok)
  /\ v2' = IF ok
           THEN [v2 EXCEPT
                   !.meta = update_metadata_v2(@,
                              last_sync_val(v2.local.df, v2.local.last_synced),
                              v2.local.row_count, v2.local.merge_status),
                   !.local.metadata_written = TRUE,
                   !.pc = "send_error_email"]
           ELSE [v2 EXCEPT !.faults = @ + 1, !.pc = "send_error_email"]
  /\ UNCHANGED v2rest

\* handler, lines 528-530
V2SendErrorEmail ==
  /\ v2.pc = "send_error_email"
  /\ v2' = [v2 EXCEPT !.pc = "idle", !.runs = @ + 1]
  /\ UNCHANGED v2rest

NextV2 ==
  \/ V2SourceInsert
  \/ \E k \in PKs : V2SourceUpdate(k)
  \/ \E ok \in BOOLEAN : V2Start(ok)
  \/ \E ok \in BOOLEAN : V2GetLastSynced(ok)
  \/ \E ok \in BOOLEAN : V2Extract(ok)
  \/ \E ok \in BOOLEAN : V2EnsureStagingTable(ok)
  \/ \E ok \in BOOLEAN : V2LoadToStaging(ok)
  \/ \E o \in {"ok", "merge_failed", "truncate_failed"} : V2MergeToTarget(o)
  \/ \E ok \in BOOLEAN : V2UpdateMetadata(ok)
  \/ V2SendErrorEmail

SpecV2 == InitV2 /\ [][NextV2]_vars

\* C37: at the end of a version 2 run whose load to staging or whose merge
\* failed, the last_synced stored for the table is the one stored when the
\* run started; and a run whose load to staging failed executed no MERGE
\* statement
C37_V2FailureKeepsWatermark ==
  v2.pc = "send_error_email" =>
    /\ (v2.local.load_failed \/ v2.local.merge_failed) =>
         V2Stored(v2.meta) = v2.local.wm_before
    /\ v2.local.load_failed => ~v2.local.merge_executed

====
